---- MODULE Spec2Model ----
(***************************************************************************)
(* LIRR filtered departures: the shared static-schedule cache              *)
(* (coordinator.get_shared_static_schedule, static_schedule.StaticSchedule)*)
(* and the per-station poll (LIRRDataUpdateCoordinator._async_update_data).*)
(*                                                                         *)
(* Python strings are sequences of one-character strings, so that strip,   *)
(* split and substring containment are computed and not assumed.           *)
(* Optional values: None is the empty tuple, a present value v is <<v>>.   *)
(***************************************************************************)
EXTENDS Integers, Sequences, FiniteSets, TLC

VARIABLES
    clock,          \* wall clock, seconds (datetime.now())
    ticks,          \* number of clock advances so far (bounds the run)
    SHARED_STATIC_SCHEDULE,              \* None or <<object id>>
    SHARED_STATIC_SCHEDULE_LAST_UPDATE,  \* None or <<seconds>>
    objs,           \* heap of StaticSchedule objects: id -> its three dicts
    pc,             \* per station: position in get_shared_static_schedule
    frame,          \* per station: locals of the call in progress (now, self)
    ret,            \* per station: how the last call ended
    loadedObj,      \* history: object that was the store at the last successful load
    poll,           \* the per-station poll: its inputs and its outputs
    coordinators,   \* per station: the coordinator object the sensors read
    entry,          \* the config entry as the host keeps it (entry.data)
    flow            \* the set-up or options dialogue in progress (its handler object)

vars == <<clock, ticks, SHARED_STATIC_SCHEDULE, SHARED_STATIC_SCHEDULE_LAST_UPDATE,
          objs, pc, frame, ret, loadedObj, poll, coordinators, entry, flow>>

cacheVars == <<clock, ticks, SHARED_STATIC_SCHEDULE, SHARED_STATIC_SCHEDULE_LAST_UPDATE,
               objs, pc, frame, ret, loadedObj>>

----------------------------------------------------------------------------
(* Bounds and program constants *)

MaxTicks == 2
MaxRows == 2

STATIC_SCHEDULE_UPDATE_INTERVAL == 86400

Stations == {"s1", "s2"}

None == <<>>
Some(v) == <<v>>
Val(o) == o[1]

----------------------------------------------------------------------------
(* Python str operations *)

IsSpace(c) == c = " "

RECURSIVE LStrip(_)
LStrip(s) == IF s # <<>> /\ IsSpace(Head(s)) THEN LStrip(Tail(s)) ELSE s

RECURSIVE RStrip(_)
RStrip(s) ==
    IF s # <<>> /\ IsSpace(s[Len(s)]) THEN RStrip(SubSeq(s, 1, Len(s) - 1)) ELSE s

\* str.strip()
Strip(s) == RStrip(LStrip(s))

\* str.split(sep) for a one-character sep: "" gives [""], "a|" gives ["a", ""]
RECURSIVE SplitFrom(_, _, _)
SplitFrom(s, sep, cur) ==
    IF s = <<>> THEN <<cur>>
    ELSE IF Head(s) = sep THEN <<cur>> \o SplitFrom(Tail(s), sep, <<>>)
    ELSE SplitFrom(Tail(s), sep, Append(cur, Head(s)))

Split(s, sep) == SplitFrom(s, sep, <<>>)

\* needle in hay
Contains(hay, needle) ==
    \E i \in 0..(Len(hay) - Len(needle)) : SubSeq(hay, i + 1, i + Len(needle)) = needle

LowerChar(c) ==
    CASE c = "A" -> "a"
      [] c = "B" -> "b"
      [] c = "H" -> "h"
      [] c = "J" -> "j"
      [] c = "P" -> "p"
      [] c = "R" -> "r"
      [] c = "T" -> "t"
      [] OTHER -> c

\* str.lower()
Lower(s) == [i \in 1..Len(s) |-> LowerChar(s[i])]

\* bool(s) of a str
Truthy(s) == s # <<>>

----------------------------------------------------------------------------
(* Python dict operations *)

EmptyDict == [k \in {} |-> <<>>]

\* d[k] = v
Put(d, k, v) == [x \in (DOMAIN d) \cup {k} |-> IF x = k THEN v ELSE d[x]]

\* d.get(k, default)
Get(d, k, default) == IF k \in DOMAIN d THEN d[k] ELSE default

----------------------------------------------------------------------------
(* StaticSchedule *)

\* StaticSchedule.__init__
NewStaticSchedule ==
    [trip_headsigns |-> EmptyDict, route_names |-> EmptyDict, stop_names |-> EmptyDict]

\* A row csv.DictReader cannot deliver as strings: undecodable bytes, or a row
\* shorter than the header (the missing field is None and .strip() raises).
BadRow == [bad |-> TRUE]
IsBad(row) == row.bad

\* A member of the zip archive: its rows, or not in zip_file.namelist()
File(rows) == [present |-> TRUE, rows |-> rows]
NoFile == [present |-> FALSE, rows |-> <<>>]
IsFile(f) == f.present

\* the body of the loop of _parse_trips with line 78 testing the trip id only
TripRowKeepBlank(d, row) ==
    LET trip_id == Strip(row.trip_id)
        headsign == Strip(row.trip_headsign)
    IN IF Truthy(trip_id) THEN Put(d, trip_id, headsign) ELSE d

\* body of the loop of _parse_trips
TripRow(d, row) ==
    LET trip_id == Strip(row.trip_id)
        headsign == Strip(row.trip_headsign)
    IN IF Truthy(trip_id) /\ Truthy(headsign) THEN Put(d, trip_id, headsign) ELSE d

\* body of the loop of _parse_routes
RouteRow(d, row) ==
    LET route_id == Strip(row.route_id)
        route_long_name == Strip(row.route_long_name)
        route_short_name == Strip(row.route_short_name)
    IN IF Truthy(route_id)
       THEN Put(d, route_id, IF Truthy(route_long_name) THEN route_long_name
                                                        ELSE route_short_name)
       ELSE d

\* body of the loop of _parse_stops
StopRow(d, row) ==
    LET stop_id == Strip(row.stop_id)
        stop_name == Strip(row.stop_name)
    IN IF Truthy(stop_id) /\ Truthy(stop_name) THEN Put(d, stop_id, stop_name) ELSE d

\* The three parsers: rows are applied to the dict in file order; a bad row
\* raises and the rows before it have already been stored.
RECURSIVE ParseTrips(_, _)
ParseTrips(d, rows) ==
    IF rows = <<>> THEN [dict |-> d, ok |-> TRUE]
    ELSE IF IsBad(Head(rows)) THEN [dict |-> d, ok |-> FALSE]
    ELSE ParseTrips(TripRow(d, Head(rows)), Tail(rows))

RECURSIVE ParseRoutes(_, _)
ParseRoutes(d, rows) ==
    IF rows = <<>> THEN [dict |-> d, ok |-> TRUE]
    ELSE IF IsBad(Head(rows)) THEN [dict |-> d, ok |-> FALSE]
    ELSE ParseRoutes(RouteRow(d, Head(rows)), Tail(rows))

RECURSIVE ParseStops(_, _)
ParseStops(d, rows) ==
    IF rows = <<>> THEN [dict |-> d, ok |-> TRUE]
    ELSE IF IsBad(Head(rows)) THEN [dict |-> d, ok |-> FALSE]
    ELSE ParseStops(StopRow(d, Head(rows)), Tail(rows))

\* _download_and_parse opening the three members without the tests of lines
\* 50, 54 and 58: a member that is not in the archive raises KeyError
ParseZipRequireAll(self, z) ==
    LET t == IF IsFile(z.trips) THEN ParseTrips(self.trip_headsigns, z.trips.rows)
             ELSE [dict |-> self.trip_headsigns, ok |-> FALSE]
        r == IF ~t.ok THEN [dict |-> self.route_names, ok |-> FALSE]
             ELSE IF IsFile(z.routes) THEN ParseRoutes(self.route_names, z.routes.rows)
             ELSE [dict |-> self.route_names, ok |-> FALSE]
        s == IF ~r.ok THEN [dict |-> self.stop_names, ok |-> FALSE]
             ELSE IF IsFile(z.stops) THEN ParseStops(self.stop_names, z.stops.rows)
             ELSE [dict |-> self.stop_names, ok |-> FALSE]
    IN [self |-> [trip_headsigns |-> t.dict, route_names |-> r.dict, stop_names |-> s.dict],
        ok |-> s.ok]

\* The part of _download_and_parse after the download: the object `self`
\* (its three dicts) after parsing zip file z, and whether it raised.
ParseZip(self, z) ==
    LET t == IF IsFile(z.trips) THEN ParseTrips(self.trip_headsigns, z.trips.rows)
             ELSE [dict |-> self.trip_headsigns, ok |-> TRUE]
        r == IF ~t.ok THEN [dict |-> self.route_names, ok |-> FALSE]
             ELSE IF IsFile(z.routes) THEN ParseRoutes(self.route_names, z.routes.rows)
             ELSE [dict |-> self.route_names, ok |-> TRUE]
        s == IF ~r.ok THEN [dict |-> self.stop_names, ok |-> FALSE]
             ELSE IF IsFile(z.stops) THEN ParseStops(self.stop_names, z.stops.rows)
             ELSE [dict |-> self.stop_names, ok |-> TRUE]
    IN [self |-> [trip_headsigns |-> t.dict, route_names |-> r.dict, stop_names |-> s.dict],
        ok |-> s.ok]

\* _download_and_parse / async_load_schedule on response resp: a connection
\* error or timeout, a non-200 status and an unreadable zip raise before any
\* dict is touched.
LoadSchedule(self, resp) ==
    IF resp.kind = "zip" THEN ParseZip(self, resp) ELSE [self |-> self, ok |-> FALSE]

\* get_trip_headsign answering a placeholder for a trip it does not know
get_trip_headsignPlaceholder(self, trip_id) == Get(self.trip_headsigns, trip_id, <<"?">>)

get_trip_headsign(self, trip_id) == Get(self.trip_headsigns, trip_id, <<>>)
get_route_name(self, route_id) == Get(self.route_names, route_id, <<>>)
get_stop_name(self, stop_id) == Get(self.stop_names, stop_id, <<>>)

----------------------------------------------------------------------------
(* The archive endpoint: what a download of LIRR_STATIC_SCHEDULE_URL can give *)

TripRec(id, hs) == [bad |-> FALSE, trip_id |-> id, trip_headsign |-> hs]
RouteRec(id, long, short) ==
    [bad |-> FALSE, route_id |-> id, route_long_name |-> long, route_short_name |-> short]
StopRec(id, name) == [bad |-> FALSE, stop_id |-> id, stop_name |-> name]

\* (rows without trip id or headsign are drawn in PolicyRowSet)
TripRowSet ==
    { TripRec(<<"T", "1">>, <<"P", "a">>),
      TripRec(<<"T", "1">>, <<"B", " ">>),
      BadRow }

RouteRowSet ==
    { RouteRec(<<"A">>, <<"B", "a">>, <<"b">>),
      RouteRec(<<"A">>, <<" ">>, <<"b">>),
      RouteRec(<<"A">>, <<>>, <<>>),
      BadRow }

StopRowSet ==
    { StopRec(<<"1">>, <<"J", "a">>),
      StopRec(<<"2">>, <<>>),
      BadRow }

SeqsUpTo(S, n) == UNION {[1..k -> S] : k \in 0..n}

DefaultTrips == File(<<TripRec(<<"T", "1">>, <<"P", "a">>), TripRec(<<"T", "2">>, <<"B">>)>>)
DefaultRoutes == File(<<RouteRec(<<"A">>, <<"B", "a">>, <<"b">>)>>)
DefaultStops == File(<<StopRec(<<"1">>, <<"J", "a">>)>>)

Zip(t, r, s) == [kind |-> "zip", trips |-> t, routes |-> r, stops |-> s]

TripFiles == {NoFile} \cup {File(rows) : rows \in SeqsUpTo(TripRowSet, MaxRows)}
RouteFiles ==
    {NoFile} \cup {File(rows) : rows \in SeqsUpTo(RouteRowSet, 1)}
    \cup {File(<<RouteRec(<<"A">>, <<>>, <<"b">>), BadRow>>)}
StopFiles ==
    {NoFile} \cup {File(rows) : rows \in SeqsUpTo(StopRowSet, 1)}
    \cup {File(<<StopRec(<<"1">>, <<"J", "a">>), BadRow>>)}

Archives ==
    {Zip(t, DefaultRoutes, DefaultStops) : t \in TripFiles}
    \cup {Zip(DefaultTrips, r, DefaultStops) : r \in RouteFiles}
    \cup {Zip(DefaultTrips, DefaultRoutes, s) : s \in StopFiles}

\* connection error or timeout; non-200 status; body that is not a zip file
Unreachable == [kind |-> "unreachable"]
HttpError == [kind |-> "http_error"]
BadZip == [kind |-> "bad_zip"]

Responses == Archives \cup {Unreachable, HttpError, BadZip}

----------------------------------------------------------------------------
(* get_shared_static_schedule *)

\* IsStale refreshing already when exactly one interval has elapsed
IsStaleAtInterval(shared, last, n) ==
    \/ shared = None
    \/ last = None
    \/ n - Val(last) >= STATIC_SCHEDULE_UPDATE_INTERVAL

\* the condition of lines 41-43
IsStale(shared, last, n) ==
    \/ shared = None
    \/ last = None
    \/ n - Val(last) > STATIC_SCHEDULE_UPDATE_INTERVAL

\* AfterLoadError discarding the store whose refresh failed
AfterLoadErrorDropStore(shared) ==
    [shared |-> None,
     ret |-> [kind |-> "return", value |-> None, load |-> "failed", logged |-> TRUE]]

\* AfterLoadError re-raising to the caller
AfterLoadErrorReraise(shared) ==
    [shared |-> shared,
     ret |-> [kind |-> "raise", value |-> None, load |-> "failed", logged |-> TRUE]]

\* the except clause of lines 54-55 followed by the return of line 57:
\* the error is logged, the global is left alone and returned
AfterLoadError(shared) ==
    [shared |-> shared,
     ret |-> [kind |-> "return", value |-> shared, load |-> "failed", logged |-> TRUE]]

NoRet == [kind |-> "none", value |-> None, load |-> "none", logged |-> FALSE]
NoFrame == [now |-> 0, self |-> 0]

\* Enter storing the timestamp before the download instead of after it
EnterStampFirst(s) ==
    /\ pc[s] = "idle"
    /\ IF IsStale(SHARED_STATIC_SCHEDULE, SHARED_STATIC_SCHEDULE_LAST_UPDATE, clock)
       THEN LET fresh == SHARED_STATIC_SCHEDULE = None
                self == IF fresh THEN Len(objs) + 1 ELSE Val(SHARED_STATIC_SCHEDULE)
            IN /\ objs' = IF fresh THEN Append(objs, NewStaticSchedule) ELSE objs
               /\ SHARED_STATIC_SCHEDULE' = Some(self)
               /\ SHARED_STATIC_SCHEDULE_LAST_UPDATE' = Some(clock)
               /\ frame' = [frame EXCEPT ![s] = [now |-> clock, self |-> self]]
               /\ pc' = [pc EXCEPT ![s] = "loading"]
               /\ ret' = [ret EXCEPT ![s] = NoRet]
       ELSE /\ frame' = [frame EXCEPT ![s] = [now |-> clock, self |-> 0]]
            /\ pc' = [pc EXCEPT ![s] = "returned"]
            /\ ret' = [ret EXCEPT ![s] = [kind |-> "return", value |-> SHARED_STATIC_SCHEDULE,
                                          load |-> "none", logged |-> FALSE]]
            /\ UNCHANGED <<objs, SHARED_STATIC_SCHEDULE, SHARED_STATIC_SCHEDULE_LAST_UPDATE>>
    /\ UNCHANGED <<clock, ticks, loadedObj, poll, coordinators, entry, flow>>

\* lines 39-51, up to the suspension in session.get
Enter(s) ==
    /\ pc[s] = "idle"
    /\ IF IsStale(SHARED_STATIC_SCHEDULE, SHARED_STATIC_SCHEDULE_LAST_UPDATE, clock)
       THEN LET fresh == SHARED_STATIC_SCHEDULE = None
                self == IF fresh THEN Len(objs) + 1 ELSE Val(SHARED_STATIC_SCHEDULE)
            IN /\ objs' = IF fresh THEN Append(objs, NewStaticSchedule) ELSE objs
               /\ SHARED_STATIC_SCHEDULE' = Some(self)
               /\ frame' = [frame EXCEPT ![s] = [now |-> clock, self |-> self]]
               /\ pc' = [pc EXCEPT ![s] = "loading"]
               /\ ret' = [ret EXCEPT ![s] = NoRet]
       ELSE /\ frame' = [frame EXCEPT ![s] = [now |-> clock, self |-> 0]]
            /\ pc' = [pc EXCEPT ![s] = "returned"]
            /\ ret' = [ret EXCEPT ![s] = [kind |-> "return", value |-> SHARED_STATIC_SCHEDULE,
                                          load |-> "none", logged |-> FALSE]]
            /\ UNCHANGED <<objs, SHARED_STATIC_SCHEDULE>>
    /\ UNCHANGED <<clock, ticks, SHARED_STATIC_SCHEDULE_LAST_UPDATE, loadedObj, poll, coordinators, entry, flow>>

\* lines 51-57: the download ends with resp; the archive is parsed into the
\* object in place, without suspension, and the call returns
LoadDone(s, resp) ==
    /\ pc[s] = "loading"
    /\ LET self == frame[s].self
           res == LoadSchedule(objs[self], resp)
       IN /\ objs' = [objs EXCEPT ![self] = res.self]
          /\ IF res.ok
             THEN /\ SHARED_STATIC_SCHEDULE_LAST_UPDATE' = Some(frame[s].now)
                  /\ loadedObj' = Some(self)
                  /\ ret' = [ret EXCEPT ![s] = [kind |-> "return",
                                                value |-> SHARED_STATIC_SCHEDULE,
                                                load |-> "ok", logged |-> FALSE]]
                  /\ UNCHANGED SHARED_STATIC_SCHEDULE
             ELSE LET h == AfterLoadError(SHARED_STATIC_SCHEDULE)
                  IN /\ SHARED_STATIC_SCHEDULE' = h.shared
                     /\ ret' = [ret EXCEPT ![s] = h.ret]
                     /\ UNCHANGED <<SHARED_STATIC_SCHEDULE_LAST_UPDATE, loadedObj>>
    /\ pc' = [pc EXCEPT ![s] = "returned"]
    /\ UNCHANGED <<clock, ticks, frame, poll, coordinators, entry, flow>>

\* the caller takes the returned store; the station's next tick may call again
Return(s) ==
    /\ pc[s] = "returned"
    /\ pc' = [pc EXCEPT ![s] = "idle"]
    /\ frame' = [frame EXCEPT ![s] = NoFrame]
    /\ ret' = [ret EXCEPT ![s] = NoRet]
    /\ UNCHANGED <<clock, ticks, SHARED_STATIC_SCHEDULE, SHARED_STATIC_SCHEDULE_LAST_UPDATE,
                   objs, loadedObj, poll, coordinators, entry, flow>>

\* time passes: a second, or a whole refresh interval
Tick(d) ==
    /\ ticks < MaxTicks
    /\ ticks' = ticks + 1
    /\ clock' = clock + d
    /\ UNCHANGED <<SHARED_STATIC_SCHEDULE, SHARED_STATIC_SCHEDULE_LAST_UPDATE, objs, pc,
                   frame, ret, loadedObj, poll, coordinators, entry, flow>>

NoPoll == [phase |-> "off"]
NoEntry == [kind |-> "none"]
NoFlow == [kind |-> "off", step |-> "none"]
NoCoordinators == [s \in Stations |-> [kind |-> "off"]]

\* module globals of lines 31-32
Init ==
    /\ clock = 0
    /\ ticks = 0
    /\ SHARED_STATIC_SCHEDULE = None
    /\ SHARED_STATIC_SCHEDULE_LAST_UPDATE = None
    /\ objs = <<>>
    /\ pc = [s \in Stations |-> "idle"]
    /\ frame = [s \in Stations |-> NoFrame]
    /\ ret = [s \in Stations |-> NoRet]
    /\ loadedObj = None
    /\ poll = NoPoll
    /\ coordinators = NoCoordinators
    /\ entry = NoEntry
    /\ flow = NoFlow

Next ==
    \/ \E s \in Stations : Enter(s)
    \/ \E s \in Stations : \E resp \in Responses : LoadDone(s, resp)
    \/ \E s \in Stations : Return(s)
    \/ \E d \in {1, STATIC_SCHEDULE_UPDATE_INTERVAL} : Tick(d)

Spec == Init /\ [][Next]_vars

\* line 51 abandoned: the host cancels the task of station s while its
\* download is in flight. CancelledError is not an Exception, so the handler
\* of lines 54-55 does not run and neither does line 52: the globals stay as
\* lines 47-48 left them
Cancel(s) ==
    /\ pc[s] = "loading"
    /\ pc' = [pc EXCEPT ![s] = "idle"]
    /\ frame' = [frame EXCEPT ![s] = NoFrame]
    /\ ret' = [ret EXCEPT ![s] = NoRet]
    /\ UNCHANGED <<clock, ticks, SHARED_STATIC_SCHEDULE, SHARED_STATIC_SCHEDULE_LAST_UPDATE,
                   objs, loadedObj, poll, coordinators, entry, flow>>

\* what a download may end with: an archive that loads, one whose trips.txt
\* has an unreadable row, no answer
CancelResponses ==
    { Zip(DefaultTrips, DefaultRoutes, DefaultStops),
      Zip(File(<<TripRec(<<"T", "1">>, <<"B", " ">>), BadRow>>), DefaultRoutes, DefaultStops),
      Unreachable }

\* the download of station s ends with an archive that loads
LoadOk(s) ==
    \E resp \in CancelResponses :
        LoadDone(s, resp) /\ LoadSchedule(objs[frame[s].self], resp).ok

NextCancel ==
    \/ \E s \in Stations : Enter(s)
    \/ \E s \in Stations : \E resp \in CancelResponses : LoadDone(s, resp)
    \/ \E s \in Stations : Cancel(s)
    \/ \E s \in Stations : Return(s)
    \/ \E d \in {1, STATIC_SCHEDULE_UPDATE_INTERVAL} : Tick(d)

\* stations keep polling (the update interval timer calls again, and a call
\* that has returned is taken by its caller), and of the archive fetches that
\* keep being made one eventually succeeds
Polling ==
    /\ \A s \in Stations : WF_vars(Enter(s)) /\ WF_vars(Return(s))
    /\ SF_vars(\E s \in Stations : LoadOk(s))

SpecCancel == Init /\ [][NextCancel]_vars /\ Polling

----------------------------------------------------------------------------
(* LIRRDataUpdateCoordinator._async_update_data: one poll of one station *)

ALL_TRAINS == <<"A", "l", "l", " ", "T", "r", "a", "i", "n", "s">>
ROUTE_PREFIX == <<"R", "o", "u", "t", "e", " ">>

Digit(n) == <<"0", "1", "2", "3", "4", "5", "6", "7", "8", "9">>[n + 1]
TwoDigits(n) == <<Digit(n \div 10), Digit(n % 10)>>

\* str(n) of a non-negative int
RECURSIVE IntToStr(_)
IntToStr(n) == IF n < 10 THEN <<Digit(n)>> ELSE Append(IntToStr(n \div 10), Digit(n % 10))

\* a configured value as stored in the entry: an int or a str
IntV(n) == [int |-> TRUE, n |-> n, s |-> <<>>]
StrV(s) == [int |-> FALSE, n |-> 0, s |-> s]

\* str(v): a str is itself, an int is its decimal digits
StrOf(v) == IF v.int THEN IntToStr(v.n) ELSE v.s

\* LIRRDataUpdateCoordinator.__init__, lines 65-69; an absent key is None
NewCoordinator(station_config) ==
    [stop_id |-> StrOf(station_config.stop_id),
     direction_filters |-> IF station_config.direction_filters = None
                           THEN <<ALL_TRAINS>>
                           ELSE Val(station_config.direction_filters),
     route_filter |-> IF station_config.route_filter = None
                      THEN <<>>
                      ELSE Val(station_config.route_filter),
     departure_limit |-> IF station_config.departure_limit = None
                         THEN 8
                         ELSE Val(station_config.departure_limit)]

\* datetime.fromtimestamp(t).strftime('%I:%M %p'), local time taken as UTC
FormatClock(t) ==
    LET h == (t % 86400) \div 3600
        m == (t % 3600) \div 60
    IN TwoDigits(((h + 11) % 12) + 1) \o <<":">> \o TwoDigits(m) \o <<" ">>
       \o (IF h < 12 THEN <<"A", "M">> ELSE <<"P", "M">>)

\* [f.strip() for f in text.split('|') if f.strip()]
FilterParts(text) ==
    LET parts == Split(text, "|")
        stripped == [i \in 1..Len(parts) |-> Strip(parts[i])]
        NonEmpty(f) == Truthy(f)
    IN SelectSeq(stripped, NonEmpty)

\* ResolveHeadsign trying the feed's inline headsign before the trip table
ResolveHeadsignInlineFirst(static_schedule, trip) ==
    IF trip.trip_headsign # None /\ Truthy(Val(trip.trip_headsign))
    THEN Val(trip.trip_headsign)
    ELSE IF static_schedule = None THEN ROUTE_PREFIX \o trip.route_id
    ELSE IF Truthy(get_trip_headsign(Val(static_schedule), trip.trip_id))
    THEN get_trip_headsign(Val(static_schedule), trip.trip_id)
    ELSE IF Truthy(get_route_name(Val(static_schedule), trip.route_id))
    THEN get_route_name(Val(static_schedule), trip.route_id)
    ELSE ROUTE_PREFIX \o trip.route_id

\* ResolveHeadsign trying the route table before the feed's inline headsign
ResolveHeadsignRouteFirst(static_schedule, trip) ==
    IF static_schedule # None /\ Truthy(get_trip_headsign(Val(static_schedule), trip.trip_id))
    THEN get_trip_headsign(Val(static_schedule), trip.trip_id)
    ELSE IF static_schedule # None /\ Truthy(get_route_name(Val(static_schedule), trip.route_id))
    THEN get_route_name(Val(static_schedule), trip.route_id)
    ELSE IF trip.trip_headsign # None /\ Truthy(Val(trip.trip_headsign))
    THEN Val(trip.trip_headsign)
    ELSE ROUTE_PREFIX \o trip.route_id

\* ResolveHeadsign whose last resort is the bare route id
ResolveHeadsignBareRoute(static_schedule, trip) ==
    IF static_schedule # None /\ Truthy(get_trip_headsign(Val(static_schedule), trip.trip_id))
    THEN get_trip_headsign(Val(static_schedule), trip.trip_id)
    ELSE IF trip.trip_headsign # None /\ Truthy(Val(trip.trip_headsign))
    THEN Val(trip.trip_headsign)
    ELSE IF static_schedule # None /\ Truthy(get_route_name(Val(static_schedule), trip.route_id))
    THEN get_route_name(Val(static_schedule), trip.route_id)
    ELSE trip.route_id

\* lines 126-138: the headsign of a stop-time update of `trip`;
\* static_schedule is None or <<the store's dicts>>
ResolveHeadsign(static_schedule, trip) ==
    LET fromTrips == IF static_schedule # None
                     THEN get_trip_headsign(Val(static_schedule), trip.trip_id)
                     ELSE <<>>
        inline == IF /\ ~Truthy(fromTrips)
                     /\ trip.trip_headsign # None
                     /\ Truthy(Val(trip.trip_headsign))
                  THEN Val(trip.trip_headsign)
                  ELSE fromTrips
    IN IF ~Truthy(inline) /\ static_schedule # None
       THEN LET route_name == get_route_name(Val(static_schedule), trip.route_id)
            IN IF Truthy(route_name) THEN route_name ELSE ROUTE_PREFIX \o trip.route_id
       ELSE IF ~Truthy(inline) THEN ROUTE_PREFIX \o trip.route_id
       ELSE inline

\* PassesRouteFilter comparing without regard to letter case
PassesRouteFilterIgnoreCase(route_filter, route_id) ==
    IF Truthy(route_filter)
    THEN LET route_filters == FilterParts(route_filter)
         IN \E i \in 1..Len(route_filters) :
                Contains(Lower(route_id), Lower(route_filters[i]))
    ELSE TRUE

\* lines 141-149: FALSE when the update is skipped by the route filter
PassesRouteFilter(route_filter, route_id) ==
    IF Truthy(route_filter)
    THEN LET route_filters == FilterParts(route_filter)
         IN \E i \in 1..Len(route_filters) : Contains(route_id, route_filters[i])
    ELSE TRUE

\* SelectedTime with the two fields tried in the other order
SelectedTimeArrivalFirst(stu) ==
    IF stu.arrival # None THEN stu.arrival
    ELSE IF stu.departure # None THEN stu.departure
    ELSE None

\* lines 151-157: the time of the update, None when it has neither
SelectedTime(stu) ==
    IF stu.departure # None THEN stu.departure
    ELSE IF stu.arrival # None THEN stu.arrival
    ELSE None

\* ProcessUpdate without the test of line 159
ProcessUpdateKeepPast(cfg, static_schedule, current_time, trip, stu) ==
    LET headsign == ResolveHeadsign(static_schedule, trip)
        base == [trip |-> trip, stu |-> stu, headsign |-> headsign]
    IN IF ~PassesRouteFilter(cfg.route_filter, trip.route_id)
       THEN base @@ [dep_time |-> None, status |-> "route_filtered"]
       ELSE IF SelectedTime(stu) = None
       THEN base @@ [dep_time |-> None, status |-> "no_time"]
       ELSE base @@ [dep_time |-> SelectedTime(stu), status |-> "emitted"]

\* ProcessUpdate with the test of line 159 made "not after"
ProcessUpdateExcludeNow(cfg, static_schedule, current_time, trip, stu) ==
    LET headsign == ResolveHeadsign(static_schedule, trip)
        dep_time == SelectedTime(stu)
        base == [trip |-> trip, stu |-> stu, headsign |-> headsign]
    IN IF ~PassesRouteFilter(cfg.route_filter, trip.route_id)
       THEN base @@ [dep_time |-> None, status |-> "route_filtered"]
       ELSE IF dep_time = None
       THEN base @@ [dep_time |-> None, status |-> "no_time"]
       ELSE IF Val(dep_time) <= current_time
       THEN base @@ [dep_time |-> dep_time, status |-> "past"]
       ELSE base @@ [dep_time |-> dep_time, status |-> "emitted"]

\* lines 123-171 for one stop-time update at the station's stop: where the
\* loop body leaves it, and the departure it appends when it gets to the end.
\* dep_time is the local of lines 151-157, None while it is unassigned.
ProcessUpdate(cfg, static_schedule, current_time, trip, stu) ==
    LET headsign == ResolveHeadsign(static_schedule, trip)
        dep_time == SelectedTime(stu)
        base == [trip |-> trip, stu |-> stu, headsign |-> headsign]
    IN IF ~PassesRouteFilter(cfg.route_filter, trip.route_id)
       THEN base @@ [dep_time |-> None, status |-> "route_filtered"]
       ELSE IF dep_time = None
       THEN base @@ [dep_time |-> None, status |-> "no_time"]
       ELSE IF Val(dep_time) < current_time
       THEN base @@ [dep_time |-> dep_time, status |-> "past"]
       ELSE base @@ [dep_time |-> dep_time, status |-> "emitted"]

\* Departure with the minutes rounded up
DepartureRoundUp(current_time, u) ==
    [headsign |-> u.headsign,
     departure_time |-> FormatClock(Val(u.dep_time)),
     minutes_until |-> (Val(u.dep_time) - current_time + 59) \div 60,
     route_id |-> u.trip.route_id,
     trip_id |-> u.trip.trip_id]

\* the dict appended at lines 165-171
Departure(current_time, u) ==
    [headsign |-> u.headsign,
     departure_time |-> FormatClock(Val(u.dep_time)),
     minutes_until |-> (Val(u.dep_time) - current_time) \div 60,
     route_id |-> u.trip.route_id,
     trip_id |-> u.trip.trip_id]

\* MatchedOfTrip without the test of line 123
RECURSIVE MatchedOfTripAnyStop(_, _, _)
MatchedOfTripAnyStop(stop_id, trip, stus) ==
    IF stus = <<>> THEN <<>>
    ELSE <<[trip |-> trip, stu |-> Head(stus)]>>
         \o MatchedOfTripAnyStop(stop_id, trip, Tail(stus))

\* lines 112-123: the stop-time updates of the station's stop, in feed order
\* (stop_id is a protobuf string field: str() of it is the string itself)
RECURSIVE MatchedOfTrip(_, _, _)
MatchedOfTrip(stop_id, trip, stus) ==
    IF stus = <<>> THEN <<>>
    ELSE (IF Head(stus).stop_id = stop_id
          THEN <<[trip |-> trip, stu |-> Head(stus)]>> ELSE <<>>)
         \o MatchedOfTrip(stop_id, trip, Tail(stus))

\* Matched leaving the loop of line 112 at the first entity without trip_update
RECURSIVE MatchedAbort(_, _)
MatchedAbort(stop_id, entities) ==
    IF entities = <<>> THEN <<>>
    ELSE IF Head(entities).has_trip_update
    THEN MatchedOfTrip(stop_id, Head(entities).trip_update.trip,
                       Head(entities).trip_update.stop_time_update)
         \o MatchedAbort(stop_id, Tail(entities))
    ELSE <<>>

RECURSIVE Matched(_, _)
Matched(stop_id, entities) ==
    IF entities = <<>> THEN <<>>
    ELSE (IF Head(entities).has_trip_update
          THEN MatchedOfTrip(stop_id, Head(entities).trip_update.trip,
                             Head(entities).trip_update.stop_time_update)
          ELSE <<>>)
         \o Matched(stop_id, Tail(entities))

\* an insertion that puts a departure before the ones of equal key
RECURSIVE InsertSortedUnstable(_, _)
InsertSortedUnstable(sorted, d) ==
    IF sorted = <<>> THEN <<d>>
    ELSE IF sorted[Len(sorted)].minutes_until < d.minutes_until THEN Append(sorted, d)
    ELSE Append(InsertSortedUnstable(SubSeq(sorted, 1, Len(sorted) - 1), d),
                sorted[Len(sorted)])

\* list.sort(key=minutes_until): stable
RECURSIVE InsertSorted(_, _)
InsertSorted(sorted, d) ==
    IF sorted = <<>> THEN <<d>>
    ELSE IF sorted[Len(sorted)].minutes_until <= d.minutes_until THEN Append(sorted, d)
    ELSE Append(InsertSorted(SubSeq(sorted, 1, Len(sorted) - 1), d), sorted[Len(sorted)])

RECURSIVE SortByMinutes(_)
SortByMinutes(ds) ==
    IF ds = <<>> THEN <<>>
    ELSE InsertSorted(SortByMinutes(SubSeq(ds, 1, Len(ds) - 1)), ds[Len(ds)])

\* lst[:n]
Slice(lst, n) ==
    IF n >= 0 THEN SubSeq(lst, 1, IF n < Len(lst) THEN n ELSE Len(lst))
    ELSE SubSeq(lst, 1, Len(lst) + n)

\* line 215 without the two lower() calls
MatchesDirectionCaseSensitive(filters, headsign) ==
    \E i \in 1..Len(filters) : Contains(headsign, filters[i])

\* line 215
MatchesDirection(filters, headsign) ==
    \E i \in 1..Len(filters) : Contains(Lower(headsign), Lower(filters[i]))

\* the scan with line 218 putting each match in front of the earlier ones
RECURSIVE ScanFilteredPrepend(_, _, _, _)
ScanFilteredPrepend(filters, limit, departures, filtered) ==
    IF departures = <<>> THEN filtered
    ELSE IF MatchesDirection(filters, Head(departures).headsign)
    THEN LET grown == <<Head(departures)>> \o filtered
         IN IF Len(grown) >= limit THEN grown
            ELSE ScanFilteredPrepend(filters, limit, Tail(departures), grown)
    ELSE ScanFilteredPrepend(filters, limit, Tail(departures), filtered)

\* the scan with the test of line 225 made "more than limit"
RECURSIVE ScanFilteredOffByOne(_, _, _, _)
ScanFilteredOffByOne(filters, limit, departures, filtered) ==
    IF departures = <<>> THEN filtered
    ELSE IF MatchesDirection(filters, Head(departures).headsign)
    THEN LET grown == Append(filtered, Head(departures))
         IN IF Len(grown) > limit THEN grown
            ELSE ScanFilteredOffByOne(filters, limit, Tail(departures), grown)
    ELSE ScanFilteredOffByOne(filters, limit, Tail(departures), filtered)

\* lines 213-226: the scan that stops once `limit` matches are collected
RECURSIVE ScanFiltered(_, _, _, _)
ScanFiltered(filters, limit, departures, filtered) ==
    IF departures = <<>> THEN filtered
    ELSE IF MatchesDirection(filters, Head(departures).headsign)
    THEN LET grown == Append(filtered, Head(departures))
         IN IF Len(grown) >= limit THEN grown
            ELSE ScanFiltered(filters, limit, Tail(departures), grown)
    ELSE ScanFiltered(filters, limit, Tail(departures), filtered)

\* the bucket without the branch of line 194: the sentinel read as a filter
BucketNoSentinel(direction_filter, limit, all_departures) ==
    ScanFiltered(FilterParts(direction_filter), limit, all_departures, <<>>)

\* lines 193-233 for one direction filter
Bucket(direction_filter, limit, all_departures) ==
    IF direction_filter = ALL_TRAINS THEN Slice(all_departures, limit)
    ELSE ScanFiltered(FilterParts(direction_filter), limit, all_departures, <<>>)

\* a classification that stores a bucket only when it has a departure
RECURSIVE ClassifySkipEmpty(_, _, _, _)
ClassifySkipEmpty(direction_filters, limit, all_departures, result) ==
    IF direction_filters = <<>> THEN result
    ELSE LET taken == Bucket(Head(direction_filters), limit, all_departures)
         IN ClassifySkipEmpty(Tail(direction_filters), limit, all_departures,
                              IF taken = <<>> THEN result
                              ELSE Put(result, Head(direction_filters), taken))

\* a classification in which a departure put in one bucket is no longer
\* offered to the filters after it
RECURSIVE ClassifyConsuming(_, _, _, _)
ClassifyConsuming(direction_filters, limit, all_departures, result) ==
    IF direction_filters = <<>> THEN result
    ELSE LET taken == Bucket(Head(direction_filters), limit, all_departures)
             Left(d) == d \notin {taken[i] : i \in DOMAIN taken}
         IN ClassifyConsuming(Tail(direction_filters), limit,
                              SelectSeq(all_departures, Left),
                              Put(result, Head(direction_filters), taken))

\* lines 191-233: result[direction_filter] = ... for each filter in order
RECURSIVE Classify(_, _, _, _)
Classify(direction_filters, limit, all_departures, result) ==
    IF direction_filters = <<>> THEN result
    ELSE Classify(Tail(direction_filters), limit, all_departures,
                  Put(result, Head(direction_filters),
                      Bucket(Head(direction_filters), limit, all_departures)))

\* lines 106-262 on a decoded feed
UpdateData(cfg, static_schedule, current_time, entities) ==
    LET matched == Matched(cfg.stop_id, entities)
        trace == [i \in 1..Len(matched) |->
                     ProcessUpdate(cfg, static_schedule, current_time,
                                   matched[i].trip, matched[i].stu)]
        Emitted(u) == u.status = "emitted"
        kept == SelectSeq(trace, Emitted)
        appended == [i \in 1..Len(kept) |-> Departure(current_time, kept[i])]
        all_departures == SortByMinutes(appended)
    IN [trace |-> trace,
        all_departures |-> all_departures,
        result |-> Classify(cfg.direction_filters, cfg.departure_limit,
                            all_departures, EmptyDict)]

----------------------------------------------------------------------------
(* The poll of one station against a loaded store and a feed response *)

MaxFilterLen == 3
MaxEntities == 2

\* the wall clock at the poll: 00:16:40
PollStart == 16 * 60 + 40

Trip(id, route, hs) == [trip_id |-> id, route_id |-> route, trip_headsign |-> hs]
Stu(stop, dep, arr) == [stop_id |-> stop, departure |-> dep, arrival |-> arr]
TripEntity(trip, stus) ==
    [has_trip_update |-> TRUE, trip_update |-> [trip |-> trip, stop_time_update |-> stus]]
\* an entity without trip_update (a vehicle position, an alert)
OtherEntity ==
    [has_trip_update |-> FALSE,
     trip_update |-> [trip |-> Trip(<<>>, <<>>, None), stop_time_update |-> <<>>]]

Feed(entities) == [kind |-> "feed", entity |-> entities]
\* non-200 status, aiohttp.ClientError, bytes ParseFromString rejects
FeedFailures == {[kind |-> "http_error"], [kind |-> "unreachable"], [kind |-> "garbage"]}

StationConfig(stop, filters, route_filter, limit) ==
    [stop_id |-> stop, direction_filters |-> filters, route_filter |-> route_filter,
     departure_limit |-> limit]

\* the first poll after start-up: the store was created at line 48
PollInput(resp, station_config, feed) ==
    [store |-> NewStaticSchedule, last |-> None,
     archive |-> resp, station_config |-> station_config, feed |-> feed]

\* a poll more than a refresh interval after the store was loaded
RefreshInput(store, resp, station_config, feed) ==
    [store |-> store, last |-> Some(PollStart - STATIC_SCHEDULE_UPDATE_INTERVAL - 1),
     archive |-> resp, station_config |-> station_config, feed |-> feed]

\* one update at the station's stop, five minutes ahead, and one elsewhere
OneDeparture(trip) ==
    Feed(<<TripEntity(trip, <<Stu(<<"2">>, Some(PollStart + 60), None),
                              Stu(<<"1">>, Some(PollStart + 300), None)>>)>>)

\* every archive outcome against every shape of trip: known or unknown trip
\* id, route with or without a name, inline headsign absent, empty or set
HeadsignInputs ==
    {PollInput(resp,
               StationConfig(IntV(1), Some(<<ALL_TRAINS, <<"b", "a">>>>), None, None),
               OneDeparture(Trip(id, route, hs))) :
        resp \in Responses,
        id \in {<<"T", "1">>, <<"T", "3">>},
        route \in {<<"A">>, <<"B">>, <<>>},
        hs \in {None, Some(<<>>), Some(<<"H", "i">>)}}

FilterChars == {"A", "a", "|", " "}
RouteFilters == SeqsUpTo(FilterChars, MaxFilterLen)
RouteIds == {<<>>, <<"A">>, <<"a">>, <<"a", "A">>, <<"A", " ", "a">>}

\* every route filter string against every route id
RouteFilterInputs ==
    {PollInput(Zip(DefaultTrips, DefaultRoutes, DefaultStops),
               StationConfig(StrV(<<"1">>), Some(<<ALL_TRAINS>>), Some(rf), Some(2)),
               OneDeparture(Trip(<<"T", "3">>, route, None))) :
        rf \in RouteFilters, route \in RouteIds}

EntitySet ==
    { OtherEntity,
      TripEntity(Trip(<<"T", "1">>, <<"A">>, None),
                 <<Stu(<<"1">>, Some(PollStart + 330), Some(PollStart + 300))>>),
      TripEntity(Trip(<<"T", "3">>, <<"A">>, Some(<<"H", "i">>)),
                 <<Stu(<<"2">>, Some(PollStart + 30), None),
                   Stu(<<"1">>, None, Some(PollStart + 310))>>),
      TripEntity(Trip(<<"T", "4">>, <<"B">>, None),
                 <<Stu(<<"1">>, Some(PollStart), None),
                   Stu(<<"1">>, None, None)>>),
      TripEntity(Trip(<<"T", "2">>, <<"a">>, None),
                 <<Stu(<<"1">>, Some(PollStart - 1), Some(PollStart + 60))>>) }

\* feeds of several entities against a few station configurations
FeedInputs ==
    {PollInput(Zip(DefaultTrips, DefaultRoutes, DefaultStops),
               StationConfig(StrV(<<"1">>), Some(filters), Some(rf), Some(limit)),
               Feed(entities)) :
        entities \in SeqsUpTo(EntitySet, MaxEntities),
        filters \in {<<ALL_TRAINS>>, <<<<"p", "A", "|", "h">>, ALL_TRAINS>>,
                     <<<<"b">>, <<"x">>>>,
                     <<ALL_TRAINS, <<"h", " ", "|", "B">>>>},
        rf \in {<<>>, <<"A">>},
        limit \in {1, 2}}

FailureInputs ==
    {PollInput(Zip(DefaultTrips, DefaultRoutes, DefaultStops),
               StationConfig(StrV(<<"1">>), None, None, None), f) : f \in FeedFailures}

\* entities without trip_update and stop-time updates without stop id (the
\* field reads as ""), for stations whose stop is or is not in the feed
SkipEntitySet ==
    { OtherEntity,
      TripEntity(Trip(<<"T", "1">>, <<"A">>, None),
                 <<Stu(<<>>, Some(PollStart + 120), None),
                   Stu(<<"1">>, Some(PollStart + 200), None)>>),
      TripEntity(Trip(<<"T", "3">>, <<"A">>, Some(<<"H", "i">>)),
                 <<Stu(<<"1">>, None, Some(PollStart + 310))>>) }

SkipInputs ==
    {PollInput(Zip(DefaultTrips, DefaultRoutes, DefaultStops),
               StationConfig(stop, Some(<<ALL_TRAINS, <<"h">>>>), None, None),
               Feed(entities)) :
        entities \in SeqsUpTo(SkipEntitySet, MaxEntities),
        stop \in {StrV(<<"1">>), StrV(<<"3">>), IntV(2)}}

\* the store as the default archive leaves it
OldStore ==
    LoadSchedule(NewStaticSchedule, Zip(DefaultTrips, DefaultRoutes, DefaultStops)).self

\* rows of trips.txt: valid ones, one without headsign, one without trip id
PolicyRowSet ==
    { TripRec(<<"T", "1">>, <<"H", "i">>),
      TripRec(<<"T", "1">>, <<"B", " ">>),
      TripRec(<<" ", "T", "2">>, <<" ">>),
      TripRec(<<" ">>, <<"H", "i">>),
      TripRec(<<"T", "3", " ">>, <<" ", "J">>),
      BadRow }

\* archives with any of the three tables left out
PartialArchives ==
    {Zip(t, r, s) :
        t \in {NoFile, File(<<TripRec(<<"T", "3">>, <<"H", "i">>)>>)},
        r \in {NoFile, File(<<RouteRec(<<"B">>, <<>>, <<"b">>)>>)},
        s \in {NoFile, File(<<StopRec(<<"2">>, <<"J", "a">>)>>)}}

\* loads of such archives into a new store and into a store loaded before
LoadInputs ==
    LET cfg == StationConfig(StrV(<<"1">>), None, None, None)
        feed == OneDeparture(Trip(<<"T", "3">>, <<"B">>, None))
        archives == PartialArchives
                    \cup {Zip(File(rows), DefaultRoutes, DefaultStops) :
                             rows \in SeqsUpTo(PolicyRowSet, MaxRows)}
    IN {PollInput(a, cfg, feed) : a \in archives}
       \cup {RefreshInput(OldStore, a, cfg, feed) : a \in archives}

\* filter lists holding one name twice, as the set-up dialogue stores them
\* when the user enters a name again (config_flow.py lines 72-75)
DuplicateInputs ==
    {PollInput(Zip(DefaultTrips, DefaultRoutes, DefaultStops),
               StationConfig(StrV(<<"1">>), Some(filters), None, Some(2)),
               OneDeparture(trip)) :
        filters \in {<<<<"h">>, <<"h">>>>, <<ALL_TRAINS, <<"b">>, ALL_TRAINS>>},
        trip \in {Trip(<<"T", "3">>, <<"A">>, Some(<<"H", "i">>)),
                  Trip(<<"T", "2">>, <<"A">>, None)}}

PollInputs ==
    HeadsignInputs \cup RouteFilterInputs \cup FeedInputs \cup FailureInputs
    \cup SkipInputs \cup LoadInputs \cup DuplicateInputs

\* the store get_shared_static_schedule returned at line 89
ReturnedSchedule ==
    IF SHARED_STATIC_SCHEDULE = None THEN None ELSE Some(objs[Val(SHARED_STATIC_SCHEDULE)])

\* line 89, from the end of the download at line 51 of
\* get_shared_static_schedule to its return: the archive is parsed into the
\* store in place; an error is logged and the store returned as it is
PollLoad ==
    /\ poll.phase = "loading"
    /\ LET self == Val(SHARED_STATIC_SCHEDULE)
           res == LoadSchedule(objs[self], poll.archive)
       IN /\ objs' = [objs EXCEPT ![self] = res.self]
          /\ IF res.ok
             THEN /\ SHARED_STATIC_SCHEDULE_LAST_UPDATE' = Some(clock)
                  /\ loadedObj' = Some(self)
                  /\ UNCHANGED SHARED_STATIC_SCHEDULE
             ELSE /\ SHARED_STATIC_SCHEDULE' = AfterLoadError(SHARED_STATIC_SCHEDULE).shared
                  /\ UNCHANGED <<SHARED_STATIC_SCHEDULE_LAST_UPDATE, loadedObj>>
    /\ poll' = [poll EXCEPT !.phase = "ready"]
    /\ UNCHANGED <<clock, ticks, pc, frame, ret, coordinators, entry, flow>>

\* lines 99-262: the feed was fetched and decoded, the result is returned
PollUpdate ==
    /\ poll.phase = "ready"
    /\ poll.response.kind = "feed"
    /\ poll' = [poll EXCEPT !.phase = "done",
                            !.data = UpdateData(poll.coord, ReturnedSchedule, clock,
                                                poll.response.entity)]
    /\ UNCHANGED <<cacheVars, coordinators, entry, flow>>

\* lines 94-97 and 264-269: the fetch or the decoding failed, UpdateFailed is raised
PollFail ==
    /\ poll.phase = "ready"
    /\ poll.response.kind # "feed"
    /\ poll' = [poll EXCEPT !.phase = "failed"]
    /\ UNCHANGED <<cacheVars, coordinators, entry, flow>>

\* a station inside line 89, waiting for the download of the archive: the
\* store is new, or was loaded more than a refresh interval ago
InitPoll ==
    \E in \in PollInputs :
        /\ clock = PollStart
        /\ ticks = 0
        /\ SHARED_STATIC_SCHEDULE = Some(1)
        /\ SHARED_STATIC_SCHEDULE_LAST_UPDATE = in.last
        /\ objs = <<in.store>>
        /\ pc = [s \in Stations |-> "idle"]
        /\ frame = [s \in Stations |-> NoFrame]
        /\ ret = [s \in Stations |-> NoRet]
        /\ loadedObj = IF in.last = None THEN None ELSE Some(1)
        /\ coordinators = NoCoordinators
        /\ entry = NoEntry
        /\ flow = NoFlow
        /\ poll = [phase |-> "loading", coord |-> NewCoordinator(in.station_config),
                   archive |-> in.archive, response |-> in.feed,
                   data |-> [trace |-> <<>>, all_departures |-> <<>>,
                             result |-> EmptyDict]]

NextPoll == PollLoad \/ PollUpdate \/ PollFail

SpecPoll == InitPoll /\ [][NextPoll]_vars

-----------------------------------------------------------------------------
(***************************************************************************)
(* The stations of one config entry over several poll cycles: each has its *)
(* coordinator, whose `data` the sensors read; a cycle is the call of      *)
(* _async_update_data, from the cache call of line 89 to the return of     *)
(* line 262 or the UpdateFailed of lines 94-97 and 264-269.                *)
(***************************************************************************)

NoResponse == [kind |-> "none"]

\* LIRRDataUpdateCoordinator(hass, entry, station_config): no data yet
NewStation(station_config) ==
    [kind |-> "coordinator",
     coord |-> NewCoordinator(station_config),
     data |-> None,
     last_update_success |-> TRUE,
     static_schedule |-> None,
     response |-> NoResponse]

CycleConfig(s) ==
    IF s = "s1"
    THEN StationConfig(StrV(<<"1">>), Some(<<ALL_TRAINS, <<"h">>>>), None, Some(2))
    ELSE StationConfig(IntV(2), Some(<<<<"p", "|", "r">>>>), None, Some(1))

CycleArchives == {Zip(DefaultTrips, DefaultRoutes, DefaultStops), Unreachable}

CycleFeeds ==
    { Feed(<<TripEntity(Trip(<<"T", "1">>, <<"A">>, None),
                        <<Stu(<<"1">>, Some(100), None),
                          Stu(<<"2">>, Some(150), None)>>)>>),
      Feed(<<OtherEntity,
             TripEntity(Trip(<<"T", "3">>, <<"B">>, Some(<<"H", "i">>)),
                        <<Stu(<<"1">>, None, Some(60)),
                          Stu(<<"2">>, None, Some(200))>>)>>) }

\* lines 89-93: the cache call has returned the store, the feed is requested
CycleFetch(s) ==
    /\ pc[s] = "returned"
    /\ ret[s].kind = "return"
    /\ coordinators' = [coordinators EXCEPT ![s].static_schedule = ret[s].value]
    /\ pc' = [pc EXCEPT ![s] = "fetching"]
    /\ frame' = [frame EXCEPT ![s] = NoFrame]
    /\ ret' = [ret EXCEPT ![s] = NoRet]
    /\ UNCHANGED <<clock, ticks, SHARED_STATIC_SCHEDULE, SHARED_STATIC_SCHEDULE_LAST_UPDATE,
                   objs, loadedObj, poll, entry, flow>>

\* the failed cycle dropping the result of the cycles before it
CycleFailClearsData(s, resp) ==
    /\ pc[s] = "fetching"
    /\ resp.kind # "feed"
    /\ coordinators' = [coordinators EXCEPT ![s].data = None,
                                            ![s].last_update_success = FALSE,
                                            ![s].static_schedule = None,
                                            ![s].response = resp]
    /\ pc' = [pc EXCEPT ![s] = "idle"]
    /\ UNCHANGED <<clock, ticks, SHARED_STATIC_SCHEDULE, SHARED_STATIC_SCHEDULE_LAST_UPDATE,
                   objs, frame, ret, loadedObj, poll, entry, flow>>

\* lines 94-97 and 264-269: the fetch or the decoding failed and UpdateFailed
\* is raised; nothing is returned, so the coordinator's data is not assigned
CycleFail(s, resp) ==
    /\ pc[s] = "fetching"
    /\ resp.kind # "feed"
    /\ coordinators' = [coordinators EXCEPT ![s].last_update_success = FALSE,
                                            ![s].static_schedule = None,
                                            ![s].response = resp]
    /\ pc' = [pc EXCEPT ![s] = "idle"]
    /\ UNCHANGED <<clock, ticks, SHARED_STATIC_SCHEDULE, SHARED_STATIC_SCHEDULE_LAST_UPDATE,
                   objs, frame, ret, loadedObj, poll, entry, flow>>

\* lines 99-262: the feed was fetched and decoded; the result returned at
\* line 262 becomes the coordinator's data
CycleUpdate(s, resp) ==
    /\ pc[s] = "fetching"
    /\ resp.kind = "feed"
    /\ LET c == coordinators[s]
           static_schedule == IF c.static_schedule = None THEN None
                              ELSE Some(objs[Val(c.static_schedule)])
           out == UpdateData(c.coord, static_schedule, clock, resp.entity)
       IN coordinators' = [coordinators EXCEPT ![s].data = Some(out.result),
                                               ![s].last_update_success = TRUE,
                                               ![s].static_schedule = None,
                                               ![s].response = resp]
    /\ pc' = [pc EXCEPT ![s] = "idle"]
    /\ UNCHANGED <<clock, ticks, SHARED_STATIC_SCHEDULE, SHARED_STATIC_SCHEDULE_LAST_UPDATE,
                   objs, frame, ret, loadedObj, poll, entry, flow>>

\* sensor.py lines 49-52: the sensors of a coordinator, in creation order
Sensors(coord) ==
    [n \in 1..(Len(coord.direction_filters) * coord.departure_limit) |->
        [direction_filter |-> coord.direction_filters[((n - 1) \div coord.departure_limit) + 1],
         idx |-> (n - 1) % coord.departure_limit]]

\* native_value giving the minutes as they are
native_valueMinutes(data, sensor) ==
    IF data = None \/ Val(data) = EmptyDict THEN None
    ELSE LET filter_data == Get(Val(data), sensor.direction_filter, <<>>)
         IN IF Len(filter_data) <= sensor.idx THEN None
            ELSE Some(filter_data[sensor.idx + 1].minutes_until)

\* sensor.py lines 93-104, LIRRDepartureSensor.native_value over coordinator.data
native_value(data, sensor) ==
    IF data = None \/ Val(data) = EmptyDict THEN None
    ELSE LET filter_data == Get(Val(data), sensor.direction_filter, <<>>)
         IN IF Len(filter_data) <= sensor.idx THEN None
            ELSE Some(filter_data[sensor.idx + 1].minutes_until * 60)

InitCycle ==
    /\ clock = 0
    /\ ticks = 0
    /\ SHARED_STATIC_SCHEDULE = None
    /\ SHARED_STATIC_SCHEDULE_LAST_UPDATE = None
    /\ objs = <<>>
    /\ pc = [s \in Stations |-> "idle"]
    /\ frame = [s \in Stations |-> NoFrame]
    /\ ret = [s \in Stations |-> NoRet]
    /\ loadedObj = None
    /\ poll = NoPoll
    /\ coordinators = [s \in Stations |-> NewStation(CycleConfig(s))]
    /\ entry = NoEntry
    /\ flow = NoFlow

NextCycle ==
    \/ \E s \in Stations : Enter(s)
    \/ \E s \in Stations : \E resp \in CycleArchives : LoadDone(s, resp)
    \/ \E s \in Stations : CycleFetch(s)
    \/ \E s \in Stations : \E resp \in CycleFeeds : CycleUpdate(s, resp)
    \/ \E s \in Stations : \E resp \in FeedFailures : CycleFail(s, resp)
    \/ Tick(60)

SpecCycle == InitCycle /\ [][NextCycle]_vars

----------------------------------------------------------------------------
(* Properties of the shared cache *)

Loading == {s \in Stations : pc[s] = "loading"}

\* the call of station s was made because the interval had elapsed since a
\* successful load (a refresh of a populated store)
IsRefresh(s) ==
    /\ SHARED_STATIC_SCHEDULE_LAST_UPDATE # None
    /\ frame[s].now - Val(SHARED_STATIC_SCHEDULE_LAST_UPDATE) > STATIC_SCHEDULE_UPDATE_INTERVAL

\* C1: single-flight refresh. Calls that overlap while the store is stale
\* share one archive fetch: at no time are two downloads in flight.
C1_SingleFlight == Cardinality(Loading) <= 1

\* C2: a successful refresh of an already-populated store leaves in the
\* three mappings exactly the entries of the newly downloaded archive.
C2_RefreshReplacesStore ==
    [][\A s \in Stations : \A resp \in Responses :
         (/\ LoadDone(s, resp)
          /\ IsRefresh(s)
          /\ LoadSchedule(objs[frame[s].self], resp).ok)
         => objs'[frame[s].self] = LoadSchedule(NewStaticSchedule, resp).self]_vars

\* C3: a refresh that fails at any point leaves the three mappings of the
\* previously loaded store as they were before the refresh started.
C3_FailedRefreshKeepsStore ==
    [][\A s \in Stations : \A resp \in Responses :
         (/\ LoadDone(s, resp)
          /\ IsRefresh(s)
          /\ ~LoadSchedule(objs[frame[s].self], resp).ok)
         => objs' = objs]_vars

\* C4: once a store has been loaded, a call whose refresh fails does not
\* raise: it logs the error and returns the previously loaded store object,
\* which stays the shared store.
C4_FailedRefreshReturnsStore ==
    \A s \in Stations :
        (pc[s] = "returned" /\ ret[s].load = "failed" /\ loadedObj # None)
        => /\ ret[s].kind = "return"
           /\ ret[s].value = loadedObj
           /\ ret[s].logged
           /\ SHARED_STATIC_SCHEDULE = loadedObj

\* a refresh made after the interval elapsed has failed and its call has returned
C4_Witness ==
    \E s \in Stations :
        pc[s] = "returned" /\ ret[s].load = "failed" /\ loadedObj # None /\ IsRefresh(s)

C6_StalenessTrigger ==
    [][\A s \in Stations :
         (pc[s] = "idle" /\ pc'[s] # "idle")
         => /\ (pc'[s] = "loading")
               <=> (\/ loadedObj = None
                    \/ /\ SHARED_STATIC_SCHEDULE_LAST_UPDATE # None
                       /\ clock - Val(SHARED_STATIC_SCHEDULE_LAST_UPDATE)
                              > STATIC_SCHEDULE_UPDATE_INTERVAL)
            /\ (pc'[s] # "loading")
               => /\ pc'[s] = "returned"
                  /\ ret'[s].kind = "return"
                  /\ ret'[s].value = SHARED_STATIC_SCHEDULE
                  /\ ret'[s].load = "none"
                  /\ objs' = objs
                  /\ SHARED_STATIC_SCHEDULE' = SHARED_STATIC_SCHEDULE]_vars

\* both stations called exactly one interval after the load and neither fetched
C6_Witness ==
    /\ SHARED_STATIC_SCHEDULE_LAST_UPDATE # None
    /\ \A s \in Stations :
          /\ pc[s] = "returned"
          /\ ret[s].load = "none"
          /\ frame[s].now - Val(SHARED_STATIC_SCHEDULE_LAST_UPDATE)
                 = STATIC_SCHEDULE_UPDATE_INTERVAL

----------------------------------------------------------------------------
(* Properties of the poll *)

PollDone == poll.phase = "done"
Trace == poll.data.trace
Store == objs[Val(SHARED_STATIC_SCHEDULE)]
Range(f) == {f[x] : x \in DOMAIN f}

\* every departure the poll hands out: the sorted list and all the buckets
Handed ==
    Range(poll.data.all_departures)
    \cup UNION {Range(poll.data.result[k]) : k \in DOMAIN poll.data.result}

HasInline(trip) == trip.trip_headsign # None /\ Val(trip.trip_headsign) # <<>>
HasRouteName(trip) ==
    trip.route_id \in DOMAIN Store.route_names /\ Store.route_names[trip.route_id] # <<>>

\* C7: headsign priority. For every stop-time update of the station whose
\* trip id is in the store's trip table, the resolved headsign is the table's
\* value, whatever the inline headsign and the route's name; so is the
\* headsign of every departure handed out for such a trip.
C7_HeadsignPriority ==
    PollDone =>
        /\ \A i \in DOMAIN Trace :
              Trace[i].trip.trip_id \in DOMAIN Store.trip_headsigns
              => Trace[i].headsign = Store.trip_headsigns[Trace[i].trip.trip_id]
        /\ \A d \in Handed :
              d.trip_id \in DOMAIN Store.trip_headsigns
              => d.headsign = Store.trip_headsigns[d.trip_id]

\* a departure of a trip that is in the trip table, carries another inline
\* headsign and runs on a route with another name
C7_Witness ==
    /\ PollDone
    /\ \E i \in DOMAIN Trace :
          /\ Trace[i].status = "emitted"
          /\ Trace[i].trip.trip_id \in DOMAIN Store.trip_headsigns
          /\ HasInline(Trace[i].trip)
          /\ Val(Trace[i].trip.trip_headsign) # Store.trip_headsigns[Trace[i].trip.trip_id]
          /\ HasRouteName(Trace[i].trip)
          /\ Store.route_names[Trace[i].trip.route_id]
                # Store.trip_headsigns[Trace[i].trip.trip_id]

\* C8: fallback chain order. Without a trip-table entry the headsign is the
\* inline headsign if non-empty, else the route table's name if non-empty,
\* else "Route " followed by the route id.
C8_FallbackChain ==
    PollDone =>
        \A i \in DOMAIN Trace :
            Trace[i].trip.trip_id \notin DOMAIN Store.trip_headsigns
            => Trace[i].headsign =
                  (IF HasInline(Trace[i].trip) THEN Val(Trace[i].trip.trip_headsign)
                   ELSE IF HasRouteName(Trace[i].trip)
                        THEN Store.route_names[Trace[i].trip.route_id]
                   ELSE ROUTE_PREFIX \o Trace[i].trip.route_id)

\* a trip without table entry and without inline headsign, on a route the
\* table lists with an empty name: the last resort is taken
C8_Witness ==
    /\ PollDone
    /\ \E i \in DOMAIN Trace :
          /\ Trace[i].trip.trip_id \notin DOMAIN Store.trip_headsigns
          /\ Store.trip_headsigns # EmptyDict
          /\ ~HasInline(Trace[i].trip)
          /\ Trace[i].trip.route_id \in DOMAIN Store.route_names
          /\ ~HasRouteName(Trace[i].trip)
          /\ Trace[i].headsign = ROUTE_PREFIX \o <<"A">>

\* C9: every departure handed out by a poll, in the sorted list and in every
\* bucket, has a non-empty headsign.
C9_HeadsignNeverEmpty == PollDone => \A d \in Handed : d.headsign # <<>>

\* a departure with an empty route id and no other source of a headsign sits
\* in a bucket, over a store whose first load failed
C9_Witness ==
    /\ PollDone
    /\ loadedObj = None
    /\ \E k \in DOMAIN poll.data.result : \E d \in Range(poll.data.result[k]) :
          d.route_id = <<>> /\ d.headsign = ROUTE_PREFIX

IsSegment(text, i, j) ==
    /\ i <= j + 1
    /\ \A k \in i..j : text[k] # "|"
    /\ (i = 1 \/ text[i - 1] = "|")
    /\ (j = Len(text) \/ text[j + 1] = "|")

\* the substrings a filter string lists: its segments between '|', each
\* without the blanks around it, the empty ones left out
Listed(text) ==
    {Strip(SubSeq(text, p[1], p[2])) :
        p \in {q \in (1..(Len(text) + 1)) \X (0..Len(text)) : IsSegment(text, q[1], q[2])}}
    \ {<<>>}

\* C10: route filter containment. A stop-time update of the station gets past
\* the route filter if and only if the filter string is empty or the route id
\* contains, case-sensitively, one of the substrings the filter lists.
C10_RouteFilterContainment ==
    PollDone =>
        \A i \in DOMAIN Trace :
            (Trace[i].status # "route_filtered")
            <=> (\/ poll.coord.route_filter = <<>>
                 \/ \E w \in Listed(poll.coord.route_filter) :
                       Contains(Trace[i].trip.route_id, w))

\* an update kept because of the second listed substring, while the first is
\* in the route id only in the other letter case
C10_Witness ==
    /\ PollDone
    /\ Len(FilterParts(poll.coord.route_filter)) = 2
    /\ \E i \in DOMAIN Trace :
          /\ Trace[i].status = "emitted"
          /\ ~Contains(Trace[i].trip.route_id, FilterParts(poll.coord.route_filter)[1])
          /\ Contains(Lower(Trace[i].trip.route_id),
                      Lower(FilterParts(poll.coord.route_filter)[1]))

\* C11: an empty route-filter OR-list means no filtering. Whenever the
\* route filter lists no substring (the empty string, "|", " ", ...), no
\* stop-time update of the station is discarded by route filtering.
C11_EmptyFilterListKeepsAll ==
    PollDone =>
        (Listed(poll.coord.route_filter) = {}
         => \A i \in DOMAIN Trace : Trace[i].status # "route_filtered")

TimeOf(o) == Val(o)
Emitted == {i \in DOMAIN Trace : Trace[i].status = "emitted"}
SameTrain(d, i) ==
    /\ d.trip_id = Trace[i].trip.trip_id
    /\ d.route_id = Trace[i].trip.route_id
    /\ d.headsign = Trace[i].headsign

\* C12: time selection. For every stop-time update of the station that gets
\* to the time selection, the selected time is the departure time when there
\* is one, otherwise the arrival time when there is one; an update with
\* neither is dropped, so the list holds one departure for each update that
\* was kept and each departure handed out shows the selected time of a kept
\* update of its trip.
C12_TimeSelection ==
    PollDone =>
        /\ \A i \in DOMAIN Trace :
              Trace[i].status # "route_filtered"
              => /\ Trace[i].stu.departure # None
                    => Trace[i].dep_time = Trace[i].stu.departure
                 /\ Trace[i].stu.departure = None
                    => Trace[i].dep_time = Trace[i].stu.arrival
                 /\ (Trace[i].stu.departure = None /\ Trace[i].stu.arrival = None)
                    => Trace[i].status = "no_time"
        /\ Len(poll.data.all_departures) = Cardinality(Emitted)
        /\ \A d \in Handed : \E i \in Emitted :
              /\ SameTrain(d, i)
              /\ \/ /\ Trace[i].stu.departure # None
                    /\ d.departure_time = FormatClock(TimeOf(Trace[i].stu.departure))
                 \/ /\ Trace[i].stu.departure = None
                    /\ Trace[i].stu.arrival # None
                    /\ d.departure_time = FormatClock(TimeOf(Trace[i].stu.arrival))

\* one feed with an update that has both times, shown at different minutes,
\* kept under its departure time, and an update with neither time
C12_Witness ==
    /\ PollDone
    /\ \E i \in Emitted :
          /\ Trace[i].stu.departure # None
          /\ Trace[i].stu.arrival # None
          /\ FormatClock(TimeOf(Trace[i].stu.departure))
                # FormatClock(TimeOf(Trace[i].stu.arrival))
          /\ \E d \in Handed :
                /\ SameTrain(d, i)
                /\ d.departure_time = FormatClock(TimeOf(Trace[i].stu.departure))
    /\ \E j \in DOMAIN Trace :
          /\ Trace[j].status = "no_time"
          /\ Trace[j].stu.departure = None /\ Trace[j].stu.arrival = None

\* the updates of the trace that have a selected time
Timed == {i \in DOMAIN Trace : Trace[i].dep_time # None}

\* C13: past-departure exclusion. An update with a selected time is discarded
\* as past if and only if that time is strictly before the poll's current
\* time; the list holds exactly one departure for each update whose selected
\* time is not before the current time, and every departure handed out, in
\* the list or in a bucket, is the departure of such an update.
C13_PastExclusion ==
    PollDone =>
        /\ \A i \in Timed :
              /\ Trace[i].status = "past" <=> TimeOf(Trace[i].dep_time) < clock
              /\ Trace[i].status = "emitted" <=> TimeOf(Trace[i].dep_time) >= clock
        /\ Len(poll.data.all_departures)
              = Cardinality({i \in Timed : TimeOf(Trace[i].dep_time) >= clock})
        /\ \A d \in Handed : \E i \in Timed :
              /\ TimeOf(Trace[i].dep_time) >= clock
              /\ SameTrain(d, i)
              /\ d.departure_time = FormatClock(TimeOf(Trace[i].dep_time))

\* an update one second in the past, whose arrival time is still ahead, is
\* discarded next to an update that is kept
C13_Witness ==
    /\ PollDone
    /\ \E i \in Timed :
          /\ Trace[i].status = "past"
          /\ TimeOf(Trace[i].dep_time) = clock - 1
          /\ Trace[i].stu.arrival # None
          /\ TimeOf(Trace[i].stu.arrival) > clock
          /\ \A d \in Handed : d.trip_id # Trace[i].trip.trip_id
    /\ Emitted # {}

\* C14 as stated: an update whose selected time is the poll's current time or
\* earlier is absent from the list.
C14_NowExcluded ==
    PollDone =>
        \A i \in Timed :
            TimeOf(Trace[i].dep_time) <= clock => Trace[i].status # "emitted"

\* C14: boundary of the past-departure exclusion. An update that gets to the
\* test with a selected time exactly equal to the poll's current time is
\* kept: the list holds its departure, with minutes_until 0.
C14_NowKept ==
    PollDone =>
        \A i \in Timed :
            TimeOf(Trace[i].dep_time) = clock
            => /\ Trace[i].status = "emitted"
               /\ \E k \in DOMAIN poll.data.all_departures :
                     /\ SameTrain(poll.data.all_departures[k], i)
                     /\ poll.data.all_departures[k].departure_time = FormatClock(clock)
                     /\ poll.data.all_departures[k].minutes_until = 0

\* a departure at the very second of the poll is first in the list
C14_Witness ==
    /\ PollDone
    /\ \E i \in Timed : TimeOf(Trace[i].dep_time) = clock
    /\ poll.data.all_departures # <<>>
    /\ poll.data.all_departures[1].minutes_until = 0
    /\ poll.data.all_departures[1].departure_time = FormatClock(clock)

\* C15: minutes_until. Every departure handed out has minutes_until >= 0, and
\* it is the departure of a kept update for which minutes_until is the number
\* of whole minutes from the poll's current time to the selected time.
C15_MinutesUntil ==
    PollDone =>
        \A d \in Handed :
            /\ d.minutes_until >= 0
            /\ \E i \in Emitted :
                  /\ SameTrain(d, i)
                  /\ d.departure_time = FormatClock(TimeOf(Trace[i].dep_time))
                  /\ 60 * d.minutes_until <= TimeOf(Trace[i].dep_time) - clock
                  /\ TimeOf(Trace[i].dep_time) - clock < 60 * (d.minutes_until + 1)

\* a departure five and a half minutes ahead is handed out with 5 minutes
C15_Witness ==
    /\ PollDone
    /\ \E i \in Emitted :
          /\ TimeOf(Trace[i].dep_time) - clock = 330
          /\ \E d \in Handed : SameTrain(d, i) /\ d.minutes_until = 5

AllDepartures == poll.data.all_departures
Result == poll.data.result
Limit == poll.coord.departure_limit
Filters == Range(poll.coord.direction_filters)

\* the departures appended by the loop, in the order of the feed
Appended ==
    LET Kept(u) == u.status = "emitted"
        kept == SelectSeq(Trace, Kept)
    IN [i \in 1..Len(kept) |-> Departure(clock, kept[i])]

\* the place of the i-th appended departure in a stable ascending order
Rank(i) ==
    1 + Cardinality({j \in DOMAIN Appended :
                        \/ Appended[j].minutes_until < Appended[i].minutes_until
                        \/ /\ Appended[j].minutes_until = Appended[i].minutes_until
                           /\ j < i})

\* C16: the candidate list holds the surviving departures in ascending order
\* of minutes_until, and of two departures with equal minutes_until the one
\* met earlier in the feed (entity order, then stop-time order) comes first.
C16_StableSort ==
    PollDone =>
        /\ Len(AllDepartures) = Len(Appended)
        /\ \A k \in 1..(Len(AllDepartures) - 1) :
              AllDepartures[k].minutes_until <= AllDepartures[k + 1].minutes_until
        /\ \A i \in DOMAIN Appended : AllDepartures[Rank(i)] = Appended[i]

\* two different trains with the same minutes_until stand in feed order
C16_Witness ==
    /\ PollDone
    /\ Len(Appended) = 2
    /\ Appended[1].minutes_until = Appended[2].minutes_until
    /\ Appended[1].trip_id # Appended[2].trip_id
    /\ AllDepartures = Appended

\* a later train of the feed that leaves sooner is moved to the front
C16_WitnessReorder ==
    /\ PollDone
    /\ Len(Appended) = 2
    /\ Appended[1].minutes_until > Appended[2].minutes_until
    /\ AllDepartures = <<Appended[2], Appended[1]>>

Least(a, b) == IF a <= b THEN a ELSE b

\* C17: sentinel bucket. When "All Trains" is one of the configured direction
\* filters, in whatever position and next to whatever other filters, its
\* bucket is the first `limit` entries of the candidate list, in order.
C17_SentinelBucket ==
    PollDone =>
        (ALL_TRAINS \in Filters
         => /\ ALL_TRAINS \in DOMAIN Result
            /\ Result[ALL_TRAINS]
                  = [k \in 1..Least(Limit, Len(AllDepartures)) |-> AllDepartures[k]])

\* "All Trains" listed after another filter whose bucket is different, with
\* more candidates than the limit
C17_Witness ==
    /\ PollDone
    /\ Len(poll.coord.direction_filters) = 2
    /\ poll.coord.direction_filters[2] = ALL_TRAINS
    /\ Len(AllDepartures) > Limit
    /\ Result[ALL_TRAINS] = <<AllDepartures[1]>>
    /\ Result[poll.coord.direction_filters[1]] # Result[ALL_TRAINS]

\* the places of the candidate list whose headsign contains, whatever the
\* letter case, one of the substrings the filter name lists
Wanted(name) ==
    {k \in DOMAIN AllDepartures :
        \E w \in Listed(name) : Contains(Lower(AllDepartures[k].headsign), Lower(w))}

\* the n-th smallest element of a set of numbers
NthOf(S, n) == CHOOSE k \in S : Cardinality({j \in S : j < k}) = n - 1

\* C18: non-sentinel bucket. For a direction filter other than "All Trains"
\* the bucket is the first `limit` departures of the candidate list, in list
\* order, whose headsign contains case-insensitively at least one of the
\* non-empty trimmed substrings of the filter name split on '|'.
C18_FilterBucket ==
    PollDone =>
        \A name \in Filters \ {ALL_TRAINS} :
            /\ name \in DOMAIN Result
            /\ Result[name]
                  = [m \in 1..Least(Limit, Cardinality(Wanted(name))) |->
                        AllDepartures[NthOf(Wanted(name), m)]]

\* a filter of two substrings that match two headsigns only when the letter
\* case is ignored; the limit lets one of them in
C18_Witness ==
    /\ PollDone
    /\ \E name \in Filters \ {ALL_TRAINS} :
          /\ Cardinality(Listed(name)) = 2
          /\ Cardinality(Wanted(name)) > Limit
          /\ Len(Result[name]) = 1
          /\ \A k \in Wanted(name) : \A w \in Listed(name) :
                ~Contains(AllDepartures[k].headsign, w)
          /\ \E k \in Wanted(name), j \in Wanted(name) :
                AllDepartures[k].headsign # AllDepartures[j].headsign

\* a bucket that skips the first candidate, which does not match
C18_WitnessSkip ==
    /\ PollDone
    /\ \E name \in Filters \ {ALL_TRAINS} :
          /\ Wanted(name) # {}
          /\ 1 \notin Wanted(name)
          /\ Result[name] = <<AllDepartures[2]>>

\* C19: limit enforcement. In the result of every poll every bucket, sentinel
\* or not, has at most as many departures as the station's departure limit.
C19_LimitEnforced ==
    PollDone => \A k \in DOMAIN Result : Len(Result[k]) <= Limit

\* both kinds of bucket are full while more departures would qualify
C19_Witness ==
    /\ PollDone
    /\ ALL_TRAINS \in DOMAIN Result
    /\ Len(Result[ALL_TRAINS]) = Limit
    /\ Len(AllDepartures) > Limit
    /\ \E name \in DOMAIN Result \ {ALL_TRAINS} :
          /\ Len(Result[name]) = Limit
          /\ Cardinality(Wanted(name)) > Limit

\* C20: bucket independence. The bucket of a direction filter is a function
\* of the candidate list, the filter's name and the limit alone: it is what
\* the filter gets when it is computed by itself, whichever other filters are
\* configured before or after it; and a departure in one bucket is also in
\* every other bucket whose filter and limit would let it in.
C20_BucketIndependence ==
    PollDone =>
        /\ DOMAIN Result = Filters
        /\ \A name \in Filters : Result[name] = Bucket(name, Limit, AllDepartures)
        /\ \A f \in Filters, g \in Filters : \A k \in DOMAIN AllDepartures :
              /\ AllDepartures[k] \in Range(Result[f])
              /\ IF g = ALL_TRAINS THEN k <= Limit
                 ELSE /\ k \in Wanted(g)
                      /\ Cardinality({j \in Wanted(g) : j < k}) < Limit
              => AllDepartures[k] \in Range(Result[g])

\* one departure sits in the bucket of the first filter and in the bucket of
\* the second, the two buckets being full
C20_Witness ==
    /\ PollDone
    /\ Len(poll.coord.direction_filters) = 2
    /\ poll.coord.direction_filters[1] # poll.coord.direction_filters[2]
    /\ \A k \in DOMAIN Result : Len(Result[k]) = Limit
    /\ Len(AllDepartures) > Limit
    /\ Range(Result[poll.coord.direction_filters[1]])
          \cap Range(Result[poll.coord.direction_filters[2]]) # {}

\* b is made of some places of lst, taken in increasing order
IsSubsequence(b, lst) ==
    \E at \in [DOMAIN b -> DOMAIN lst] :
        /\ \A m \in DOMAIN b : lst[at[m]] = b[m]
        /\ \A m \in DOMAIN b, n \in DOMAIN b : m < n => at[m] < at[n]

\* C21: within every bucket the departures are in non-decreasing order of
\* minutes_until, each bucket being a subsequence of the sorted candidate
\* list that keeps the list's order.
C21_BucketOrder ==
    PollDone =>
        \A name \in DOMAIN Result :
            /\ \A m \in 1..(Len(Result[name]) - 1) :
                  Result[name][m].minutes_until <= Result[name][m + 1].minutes_until
            /\ Result[name] = <<>> \/ IsSubsequence(Result[name], AllDepartures)

\* a filtered bucket of two departures that leave at different minutes
C21_Witness ==
    /\ PollDone
    /\ \E name \in DOMAIN Result \ {ALL_TRAINS} :
          /\ Len(Result[name]) = 2
          /\ Result[name][1].minutes_until < Result[name][2].minutes_until

\* the selected times of the kept updates that gave the departure d
TimesOf(d) ==
    {TimeOf(Trace[i].dep_time) : i \in {j \in Emitted : Departure(clock, Trace[j]) = d}}

\* C22: buckets preserve ascending time order. Within every bucket the
\* departures stand in ascending order of their selected time in epoch
\* seconds, also when two of them fall in the same whole minute and stand in
\* the feed in the opposite order.
C22_BucketTimeOrder ==
    PollDone =>
        \A name \in DOMAIN Result :
            \A m \in DOMAIN Result[name], n \in DOMAIN Result[name] :
                m < n => \E t \in TimesOf(Result[name][m]), u \in TimesOf(Result[name][n]) :
                            t <= u

\* C23: a direction filter that matches no departure yields an empty bucket
\* and not an error: a poll whose feed was fetched and decoded never fails,
\* and its result maps the name of such a filter to the empty list.
C23_EmptyBucket ==
    /\ poll.phase = "failed" => poll.response.kind # "feed"
    /\ PollDone =>
          \A name \in Filters \ {ALL_TRAINS} :
              Wanted(name) = {} => name \in DOMAIN Result /\ Result[name] = <<>>

\* a filter that matches none of the candidates, next to one that does
C23_Witness ==
    /\ PollDone
    /\ AllDepartures # <<>>
    /\ \E name \in Filters \ {ALL_TRAINS}, other \in Filters \ {ALL_TRAINS} :
          /\ Listed(name) # {}
          /\ Wanted(name) = {}
          /\ Result[name] = <<>>
          /\ Result[other] # <<>>

FeedEntities == poll.response.entity

\* the places <<entity, update>> of the feed where a stop-time update of a
\* trip update names the station's stop
AtStation ==
    {p \in UNION {{<<e, k>> : k \in DOMAIN FeedEntities[e].trip_update.stop_time_update} :
                     e \in {x \in DOMAIN FeedEntities : FeedEntities[x].has_trip_update}} :
        FeedEntities[p[1]].trip_update.stop_time_update[p[2]].stop_id = poll.coord.stop_id}

\* C25: a station whose stop id is in no stop-time update of the feed gets a
\* successful poll whose candidate list is empty and whose result maps every
\* configured direction filter to an empty bucket.
C25_StopAbsent ==
    /\ poll.phase = "failed" => poll.response.kind # "feed"
    /\ PollDone =>
          (AtStation = {}
           => /\ AllDepartures = <<>>
              /\ DOMAIN Result = Filters
              /\ \A name \in Filters : Result[name] = <<>>)

\* a feed with updates in the future at other stops only, two filters
C25_Witness ==
    /\ PollDone
    /\ AtStation = {}
    /\ \E e \in DOMAIN FeedEntities :
          /\ FeedEntities[e].has_trip_update
          /\ \E k \in DOMAIN FeedEntities[e].trip_update.stop_time_update :
                LET u == FeedEntities[e].trip_update.stop_time_update[k]
                IN u.stop_id # <<>> /\ u.departure # None /\ TimeOf(u.departure) > clock
    /\ Cardinality(DOMAIN Result) = 2
    /\ \A name \in DOMAIN Result : Result[name] = <<>>

\* the first non-empty of: the store's headsign of the trip, the inline
\* headsign, the store's name of the route, "Route " and the route id
Chain(trip) ==
    LET table == IF trip.trip_id \in DOMAIN Store.trip_headsigns
                 THEN Store.trip_headsigns[trip.trip_id] ELSE <<>>
    IN IF table # <<>> THEN table
       ELSE IF HasInline(trip) THEN Val(trip.trip_headsign)
       ELSE IF HasRouteName(trip) THEN Store.route_names[trip.route_id]
       ELSE ROUTE_PREFIX \o trip.route_id

\* C26: missing reference data never fails a poll. Whatever the shared store
\* holds (its load failed, it was loaded with empty tables, it lacks the trip
\* or the route), a poll of a decoded feed succeeds and every update of the
\* station, and every departure handed out, has its headsign from the
\* fallback chain.
C26_MissingReferenceData ==
    /\ poll.phase = "failed" => poll.response.kind # "feed"
    /\ PollDone =>
          /\ \A i \in DOMAIN Trace : Trace[i].headsign = Chain(Trace[i].trip)
          /\ \A d \in Handed : \E i \in Emitted :
                SameTrain(d, i) /\ d.headsign = Chain(Trace[i].trip)

\* a store loaded from an archive without trips table: the departure has the
\* route's name
C26_Witness ==
    /\ PollDone
    /\ loadedObj # None
    /\ Store.trip_headsigns = EmptyDict
    /\ \E d \in Handed :
          /\ d.route_id \in DOMAIN Store.route_names
          /\ d.headsign = Store.route_names[d.route_id]

\* a store whose load failed before any row was read
C26_WitnessNotLoaded ==
    /\ PollDone
    /\ loadedObj = None
    /\ Store = NewStaticSchedule
    /\ \E d \in Handed : d.headsign = <<"H", "i">>

\* the n-th place of AtStation in feed order
Before(p, q) == p[1] < q[1] \/ (p[1] = q[1] /\ p[2] < q[2])
NthAtStation(n) ==
    CHOOSE p \in AtStation : Cardinality({q \in AtStation : Before(q, p)}) = n - 1

\* C29: entities without trip update and stop-time updates without stop id
\* are skipped: the updates the poll works on are those of AtStation, in feed
\* order, none of them without stop id, and every departure handed out is
\* the departure of one of them; what is skipped changes nothing else.
C29_SkippedItems ==
    /\ poll.phase = "failed" => poll.response.kind # "feed"
    /\ PollDone =>
          /\ Len(Trace) = Cardinality(AtStation)
          /\ \A n \in DOMAIN Trace :
                LET p == NthAtStation(n)
                IN /\ Trace[n].trip = FeedEntities[p[1]].trip_update.trip
                   /\ Trace[n].stu = FeedEntities[p[1]].trip_update.stop_time_update[p[2]]
                   /\ Trace[n].stu.stop_id # <<>>
          /\ \A d \in Handed : \E i \in Emitted : d = Departure(clock, Trace[i])

\* an entity without trip update, then a trip whose first update has no stop
\* id and whose second is at the station and gives the only departure
C29_Witness ==
    /\ PollDone
    /\ Len(FeedEntities) = 2
    /\ ~FeedEntities[1].has_trip_update
    /\ Len(FeedEntities[2].trip_update.stop_time_update) = 2
    /\ FeedEntities[2].trip_update.stop_time_update[1].stop_id = <<>>
    /\ AtStation = {<<2, 2>>}
    /\ Len(AllDepartures) = 1

\* the step in which the downloaded archive is parsed into the store
LoadStep == poll.phase = "loading" /\ poll'.phase = "ready"
StoreBefore == objs[Val(SHARED_STATIC_SCHEDULE)]
StoreAfter == objs'[Val(SHARED_STATIC_SCHEDULE)]

NoBadRow(file) == \A i \in DOMAIN file.rows : ~file.rows[i].bad
LacksTable(z) == ~IsFile(z.trips) \/ ~IsFile(z.routes) \/ ~IsFile(z.stops)

\* C27: archive partial-table tolerance. Loading an archive that lacks one of
\* trips.txt, routes.txt, stops.txt (its other tables being readable)
\* succeeds; the mapping of a missing table is left as it was, and the other
\* mappings have an entry for every usable row of their table and serve it.
C27_PartialArchive ==
    [][(/\ LoadStep
        /\ poll.archive.kind = "zip"
        /\ LacksTable(poll.archive)
        /\ NoBadRow(poll.archive.trips)
        /\ NoBadRow(poll.archive.routes)
        /\ NoBadRow(poll.archive.stops))
       => /\ SHARED_STATIC_SCHEDULE_LAST_UPDATE' = Some(clock)
          /\ loadedObj' = SHARED_STATIC_SCHEDULE
          /\ ~IsFile(poll.archive.trips)
             => StoreAfter.trip_headsigns = StoreBefore.trip_headsigns
          /\ ~IsFile(poll.archive.routes)
             => StoreAfter.route_names = StoreBefore.route_names
          /\ ~IsFile(poll.archive.stops)
             => StoreAfter.stop_names = StoreBefore.stop_names
          /\ \A i \in DOMAIN poll.archive.trips.rows :
                LET row == poll.archive.trips.rows[i]
                IN (Strip(row.trip_id) # <<>> /\ Strip(row.trip_headsign) # <<>>)
                   => get_trip_headsign(StoreAfter, Strip(row.trip_id)) # <<>>
          /\ \A i \in DOMAIN poll.archive.routes.rows :
                LET row == poll.archive.routes.rows[i]
                IN Strip(row.route_id) # <<>>
                   => /\ Strip(row.route_id) \in DOMAIN StoreAfter.route_names
                      /\ get_route_name(StoreAfter, Strip(row.route_id))
                            \in {Strip(row.route_long_name), Strip(row.route_short_name)}
          /\ \A i \in DOMAIN poll.archive.stops.rows :
                LET row == poll.archive.stops.rows[i]
                IN (Strip(row.stop_id) # <<>> /\ Strip(row.stop_name) # <<>>)
                   => get_stop_name(StoreAfter, Strip(row.stop_id)) # <<>>]_vars

\* a new store after the load of an archive without stops.txt: the trip and
\* route mappings have entries, the stop mapping has none
C27_Witness ==
    /\ poll.phase = "ready"
    /\ poll.archive.kind = "zip"
    /\ IsFile(poll.archive.trips) /\ IsFile(poll.archive.routes)
    /\ ~IsFile(poll.archive.stops)
    /\ loadedObj # None
    /\ Store.trip_headsigns # EmptyDict
    /\ Store.route_names # EmptyDict
    /\ Store.stop_names = EmptyDict

\* a refreshed store after the load of an archive without trips.txt: the
\* trips of the earlier load are still served
C27_WitnessRefresh ==
    /\ poll.phase = "ready"
    /\ poll.archive.kind = "zip"
    /\ ~IsFile(poll.archive.trips)
    /\ IsFile(poll.archive.routes)
    /\ SHARED_STATIC_SCHEDULE_LAST_UPDATE = Some(clock)
    /\ Store.trip_headsigns = OldStore.trip_headsigns
    /\ Store.route_names # OldStore.route_names

\* the rows of a table that the parser gets to: those before the first row
\* it cannot read
Readable(rows) ==
    SubSeq(rows, 1, Cardinality({i \in DOMAIN rows : \A j \in 1..i : ~rows[j].bad}))
ValidTrip(row) ==
    ~row.bad /\ Strip(row.trip_id) # <<>> /\ Strip(row.trip_headsign) # <<>>
LastValid(rows, k) ==
    CHOOSE i \in DOMAIN rows :
        /\ ValidTrip(rows[i]) /\ Strip(rows[i].trip_id) = k
        /\ \A j \in DOMAIN rows :
              (ValidTrip(rows[j]) /\ Strip(rows[j].trip_id) = k) => j <= i

\* C28: trips-table parse policy. After the parse of a trips table the
\* trip->headsign mapping has no empty key and no empty value; its keys are
\* those it had and the trimmed trip ids of the valid rows; a trip id of
\* valid rows maps to the trimmed headsign of the last of them, and every
\* other entry is as it was, rows with an empty trimmed trip id or headsign
\* having added and overwritten nothing.
C28_TripsPolicy ==
    [][(LoadStep /\ poll.archive.kind = "zip" /\ IsFile(poll.archive.trips))
       => LET rows == Readable(poll.archive.trips.rows)
              before == StoreBefore.trip_headsigns
              after == StoreAfter.trip_headsigns
              keys == {Strip(rows[i].trip_id) : i \in {j \in DOMAIN rows : ValidTrip(rows[j])}}
          IN /\ DOMAIN after = DOMAIN before \cup keys
             /\ <<>> \notin DOMAIN after
             /\ \A k \in DOMAIN after :
                   /\ after[k] # <<>>
                   /\ after[k] = IF k \in keys
                                 THEN Strip(rows[LastValid(rows, k)].trip_headsign)
                                 ELSE before[k]]_vars

\* a refresh whose table has a row without headsign for a trip of the store
\* and a valid row for another trip: the first trip keeps its headsign
C28_Witness ==
    /\ poll.phase = "ready"
    /\ poll.archive.kind = "zip"
    /\ IsFile(poll.archive.trips)
    /\ LET rows == poll.archive.trips.rows
       IN /\ Len(rows) = 2
          /\ ValidTrip(rows[1])
          /\ Strip(rows[1].trip_id) \in DOMAIN OldStore.trip_headsigns
          /\ Store.trip_headsigns[Strip(rows[1].trip_id)] = Strip(rows[1].trip_headsign)
          /\ Strip(rows[1].trip_headsign) # OldStore.trip_headsigns[Strip(rows[1].trip_id)]
          /\ ~rows[2].bad
          /\ Strip(rows[2].trip_headsign) = <<>>
          /\ Strip(rows[2].trip_id) \in DOMAIN Store.trip_headsigns
          /\ Store.trip_headsigns[Strip(rows[2].trip_id)]
                = OldStore.trip_headsigns[Strip(rows[2].trip_id)]

\* two valid rows for one trip: the second one's headsign is stored
C28_WitnessLast ==
    /\ poll.phase = "ready"
    /\ poll.archive.kind = "zip"
    /\ IsFile(poll.archive.trips)
    /\ LET rows == poll.archive.trips.rows
       IN /\ Len(rows) = 2
          /\ ValidTrip(rows[1]) /\ ValidTrip(rows[2])
          /\ rows[1].trip_id = rows[2].trip_id
          /\ Strip(rows[1].trip_headsign) # Strip(rows[2].trip_headsign)
          /\ Store.trip_headsigns[Strip(rows[2].trip_id)] = Strip(rows[2].trip_headsign)

\* the step in which a cycle of station s ends, by a failure or by a result
CycleEnds(s) == pc[s] = "fetching" /\ pc'[s] = "idle"
FailStep(s) == CycleEnds(s) /\ coordinators'[s].response.kind # "feed"
UpdateStep(s) == CycleEnds(s) /\ coordinators'[s].response.kind = "feed"

\* the trip ids of the trip updates of a feed
TripIds(feed) ==
    {feed.entity[e].trip_update.trip.trip_id :
        e \in {x \in DOMAIN feed.entity : feed.entity[x].has_trip_update}}

C30_SensorReading ==
    \A s \in Stations :
        coordinators[s].kind = "coordinator"
        => LET c == coordinators[s]
               sensors == Sensors(c.coord)
           IN /\ Len(sensors) = Len(c.coord.direction_filters) * c.coord.departure_limit
              /\ \A f \in DOMAIN c.coord.direction_filters :
                    \A i \in 0..(c.coord.departure_limit - 1) :
                        Cardinality({n \in DOMAIN sensors :
                                        /\ sensors[n].direction_filter
                                              = c.coord.direction_filters[f]
                                        /\ sensors[n].idx = i}) = 1
              /\ \A n \in DOMAIN sensors :
                    LET F == sensors[n].direction_filter
                        i == sensors[n].idx
                        v == native_value(c.data, sensors[n])
                    IN /\ v = None <=> (c.data = None \/ Len(Val(c.data)[F]) <= i)
                       /\ v # None
                          => Val(v) = 60 * Val(c.data)[F][i + 1].minutes_until

\* after a failed cycle the first sensor of a filter still reports the
\* departure of the earlier result, one minute ahead, and the second sensor
\* of the filter reports nothing
C30_Witness ==
    \E s \in Stations :
        /\ coordinators[s].kind = "coordinator"
        /\ ~coordinators[s].last_update_success
        /\ coordinators[s].data # None
        /\ \E n \in DOMAIN Sensors(coordinators[s].coord),
              m \in DOMAIN Sensors(coordinators[s].coord) :
              /\ Sensors(coordinators[s].coord)[n].direction_filter
                    = Sensors(coordinators[s].coord)[m].direction_filter
              /\ Sensors(coordinators[s].coord)[n].idx = 0
              /\ Sensors(coordinators[s].coord)[m].idx = 1
              /\ native_value(coordinators[s].data, Sensors(coordinators[s].coord)[n])
                    = Some(60)
              /\ native_value(coordinators[s].data, Sensors(coordinators[s].coord)[m])
                    = None

\* a departure at the second of the poll: the sensor reports 0, not None
C30_WitnessZero ==
    \E s \in Stations :
        /\ coordinators[s].kind = "coordinator"
        /\ \E n \in DOMAIN Sensors(coordinators[s].coord) :
              native_value(coordinators[s].data, Sensors(coordinators[s].coord)[n]) = Some(0)


----------------------------------------------------------------------------
(* The timestamp of the shared cache *)

\* the step is the end of station s's download with resp, and the load fails
FailedLoad(s, resp) ==
    /\ LoadDone(s, resp)
    /\ ~LoadSchedule(objs[frame[s].self], resp).ok

\* C32: after a failed load (first load or refresh) the timestamp of the
\* last successful load is not advanced, and the next call of any station
\* fetches the archive again: right after the failure, when no load has
\* succeeded since, a call made at the current time finds the cache stale.
C32_FailedLoadRetried ==
    [][\A s \in Stations : \A resp \in Responses :
         FailedLoad(s, resp)
         => /\ SHARED_STATIC_SCHEDULE_LAST_UPDATE' = SHARED_STATIC_SCHEDULE_LAST_UPDATE
            /\ IsStale(SHARED_STATIC_SCHEDULE', SHARED_STATIC_SCHEDULE_LAST_UPDATE',
                       clock')]_vars

\* C34: the timestamp of the last successful load never decreases: each
\* assignment stores a time greater than or equal to the previous value, and
\* a timestamp that is set implies that the store has been loaded successfully.
C34_TimestampMonotone ==
    [][/\ (SHARED_STATIC_SCHEDULE_LAST_UPDATE # None
           /\ SHARED_STATIC_SCHEDULE_LAST_UPDATE' # None)
          => Val(SHARED_STATIC_SCHEDULE_LAST_UPDATE')
                 >= Val(SHARED_STATIC_SCHEDULE_LAST_UPDATE)
       /\ SHARED_STATIC_SCHEDULE_LAST_UPDATE' # None
          => /\ loadedObj' # None
             /\ loadedObj' = SHARED_STATIC_SCHEDULE']_vars


\* the cache serves a call made now without a fetch
Fresh ==
    ~IsStale(SHARED_STATIC_SCHEDULE, SHARED_STATIC_SCHEDULE_LAST_UPDATE, clock)

\* the shared store is the object of the last successful load
Loaded ==
    /\ SHARED_STATIC_SCHEDULE # None
    /\ SHARED_STATIC_SCHEDULE_LAST_UPDATE # None
    /\ loadedObj = SHARED_STATIC_SCHEDULE

\* every entry of the three tables of the archive is in the store
HoldsArchive(store, resp) ==
    LET archive == LoadSchedule(NewStaticSchedule, resp).self
        Within(a, b) == \A k \in DOMAIN a : k \in DOMAIN b /\ b[k] = a[k]
    IN /\ Within(archive.trip_headsigns, store.trip_headsigns)
       /\ Within(archive.route_names, store.route_names)
       /\ Within(archive.stop_names, store.stop_names)

\* C33: the shared cache cannot get stuck. In no state do calls skip the
\* fetch while the store holds no loaded data; a fetch that succeeds leaves
\* the archive's data in the shared store and sets the timestamp; and after
\* any interleaving of concurrent calls, failed loads and cancelled polls,
\* while stations keep polling and fetches eventually succeed, a stale cache
\* eventually holds a loaded store with a fresh timestamp.
C33_CacheNotStuck ==
    /\ [](Fresh => Loaded)
    /\ [][\A s \in Stations : \A resp \in CancelResponses :
             (LoadDone(s, resp) /\ LoadSchedule(objs[frame[s].self], resp).ok)
             => /\ SHARED_STATIC_SCHEDULE' = Some(frame[s].self)
                /\ HoldsArchive(objs'[frame[s].self], resp)
                /\ SHARED_STATIC_SCHEDULE_LAST_UPDATE' = Some(frame[s].now)]_vars
    /\ (~Fresh) ~> (Fresh /\ Loaded)

\* a poll has been cancelled during the very first download: the store
\* object exists, it is empty and no call is in progress
C33_Witness ==
    /\ SHARED_STATIC_SCHEDULE # None
    /\ SHARED_STATIC_SCHEDULE_LAST_UPDATE = None
    /\ loadedObj = None
    /\ objs[Val(SHARED_STATIC_SCHEDULE)] = NewStaticSchedule
    /\ \A s \in Stations : pc[s] = "idle"

\* after a cancelled download and a failed one the cache is loaded and fresh
C33_WitnessRecovered ==
    /\ Fresh /\ Loaded
    /\ clock > 0
    /\ \E s \in Stations : pc[s] = "returned" /\ ret[s].load = "failed"


----------------------------------------------------------------------------
(* The keys of the result *)

FilterList == poll.coord.direction_filters

\* C35: the result of a successful poll has exactly one key per configured
\* direction filter: its keys are the configured names and there are as many
\* of them as the configured list is long, a list that holds the same name
\* more than once included.
C35_OneKeyPerFilter ==
    PollDone =>
        /\ DOMAIN Result = Range(FilterList)
        /\ Cardinality(DOMAIN Result) = Len(FilterList)


-----------------------------------------------------------------------------
(***************************************************************************)
(* The config entry: the set-up dialogue that creates it, the options      *)
(* dialogue that edits it, and the migration of entries of older releases  *)
(***************************************************************************)

\* submissions with "add another" ticked that one set-up dialogue takes
MaxTyped == 2
\* add and delete steps that one options dialogue takes
MaxEdits == 2

\* what a user types in the text field of a filter name
FilterTexts ==
    { <<>>, <<" ">>, <<"h">>, <<"H", " ">>, <<"p", " ", "r">>, <<"p", "|", "r">> }

StationName == <<"V", "S">>
StopId == <<"2", "1", "1">>

\* the dict of lines 86-91
NewStationConfig(name, stop, limit, filters) ==
    [station_name |-> name, stop_id |-> stop, departure_limit |-> limit,
     direction_filters |-> filters]

\* LIRRFilteredConfigFlow.__init__ and the form of async_step_user
ConfigStart ==
    /\ entry = NoEntry
    /\ flow = NoFlow
    /\ flow' = [kind |-> "config", step |-> "user", station_name |-> None,
                stop_id |-> None, departure_limit |-> 8, direction_filters |-> <<>>,
                typed |-> <<>>]
    /\ UNCHANGED <<cacheVars, poll, coordinators, entry>>

\* async_step_user with user_input: lines 41-46, then the form of
\* add_direction_filter (lines 99-117)
StepUser(limit) ==
    /\ flow.kind = "config"
    /\ flow.step = "user"
    /\ flow' = [flow EXCEPT !.step = "add_direction_filter",
                            !.station_name = Some(StationName),
                            !.stop_id = Some(StopId),
                            !.departure_limit = limit]
    /\ UNCHANGED <<cacheVars, poll, coordinators, entry>>

\* the step without str.strip: the name is stored as typed
StepAddDirectionFilterNoStrip(text, add_another) ==
    /\ flow.kind = "config"
    /\ flow.step = "add_direction_filter"
    /\ add_another => Len(flow.typed) < MaxTyped
    /\ LET filter_name == text
           grown == IF Truthy(filter_name)
                    THEN Append(flow.direction_filters, filter_name)
                    ELSE flow.direction_filters
           final == IF grown = <<>> THEN <<ALL_TRAINS>> ELSE grown
       IN IF add_another
          THEN /\ flow' = [flow EXCEPT !.direction_filters = grown,
                                       !.typed = Append(@, text)]
               /\ UNCHANGED entry
          ELSE /\ flow' = [flow EXCEPT !.step = "created",
                                       !.direction_filters = final,
                                       !.typed = Append(@, text)]
               /\ entry' = [kind |-> "entry", migrations |-> 0,
                            data |-> [stations |->
                                <<NewStationConfig(Val(flow.station_name),
                                                   Val(flow.stop_id),
                                                   flow.departure_limit, final)>>]]
    /\ UNCHANGED <<cacheVars, poll, coordinators>>

\* async_step_add_direction_filter with user_input: lines 71-97
StepAddDirectionFilter(text, add_another) ==
    /\ flow.kind = "config"
    /\ flow.step = "add_direction_filter"
    /\ add_another => Len(flow.typed) < MaxTyped
    /\ LET filter_name == Strip(text)
           grown == IF Truthy(filter_name)
                    THEN Append(flow.direction_filters, filter_name)
                    ELSE flow.direction_filters
           final == IF grown = <<>> THEN <<ALL_TRAINS>> ELSE grown
       IN IF add_another
          THEN /\ flow' = [flow EXCEPT !.direction_filters = grown,
                                       !.typed = Append(@, text)]
               /\ UNCHANGED entry
          ELSE /\ flow' = [flow EXCEPT !.step = "created",
                                       !.direction_filters = final,
                                       !.typed = Append(@, text)]
               /\ entry' = [kind |-> "entry", migrations |-> 0,
                            data |-> [stations |->
                                <<NewStationConfig(Val(flow.station_name),
                                                   Val(flow.stop_id),
                                                   flow.departure_limit, final)>>]]
    /\ UNCHANGED <<cacheVars, poll, coordinators>>


\* no dialogue is open: none was started, or the last one has ended
NoDialogue == flow.step \in {"none", "created", "closed"}

\* data.get(CONF_STATIONS, []) and station.get(CONF_DIRECTION_FILTERS, ["All Trains"])
StationsOf(data) == IF "stations" \in DOMAIN data THEN data.stations ELSE <<>>
FiltersOf(station) ==
    IF "direction_filters" \in DOMAIN station THEN station.direction_filters
    ELSE <<ALL_TRAINS>>

\* the end of an options dialogue; how: "aborted", "done", "station",
\* "filters" or "abandoned"
Closed(how) == [flow EXCEPT !.step = "closed", !.how = how]

\* LIRROptionsFlowHandler.__init__ (lines 129-134) and the first call of
\* async_step_init, without user_input (lines 138-142 and the form); a run
\* opens the options dialogue once
OptionsStart ==
    /\ entry.kind = "entry"
    /\ NoDialogue
    /\ flow.kind # "options"
    /\ LET stations == StationsOf(entry.data)
           opened == [kind |-> "options", step |-> "init", how |-> "open",
                      stations |-> stations, direction_filters |-> <<>>,
                      edits |-> 0]
       IN flow' = IF stations = <<>>
                  THEN [opened EXCEPT !.step = "closed", !.how = "aborted"]
                  ELSE [opened EXCEPT !.direction_filters = FiltersOf(stations[1])]
    /\ UNCHANGED <<cacheVars, poll, coordinators, entry>>

\* async_step_init with user_input: lines 141-150
OptionsInit(action) ==
    /\ flow.kind = "options"
    /\ flow.step = "init"
    /\ LET reread == [flow EXCEPT !.direction_filters = FiltersOf(flow.stations[1])]
       IN flow' = CASE action = "edit_filters" -> [reread EXCEPT !.step = "edit_filters"]
                    [] action = "edit_station" -> [reread EXCEPT !.step = "edit_station"]
                    [] OTHER -> [reread EXCEPT !.step = "closed", !.how = "done"]
    /\ UNCHANGED <<cacheVars, poll, coordinators, entry>>

\* async_step_edit_station with user_input: lines 174-183
OptionsEditStation(limit) ==
    /\ flow.kind = "options"
    /\ flow.step = "edit_station"
    /\ LET station == [k \in DOMAIN flow.stations[1] \cup
                                {"station_name", "stop_id", "departure_limit"} |->
                          CASE k = "station_name" -> StationName
                            [] k = "stop_id" -> StopId
                            [] k = "departure_limit" -> limit
                            [] OTHER -> flow.stations[1][k]]
           stations == [flow.stations EXCEPT ![1] = station]
       IN /\ entry' = [entry EXCEPT !.data = [stations |-> stations]]
          /\ flow' = [Closed("station") EXCEPT !.stations = stations]
    /\ UNCHANGED <<cacheVars, poll, coordinators>>

\* async_step_edit_filters with user_input: lines 206-220; "delete" runs
\* async_step_delete_filter without user_input (lines 264-277)
OptionsEditFilters(action) ==
    /\ flow.kind = "options"
    /\ flow.step = "edit_filters"
    /\ action \in {"add", "delete"} => flow.edits < MaxEdits
    /\ CASE action = "add" ->
              /\ flow' = [flow EXCEPT !.step = "add_filter"]
              /\ UNCHANGED entry
         [] action = "delete" ->
              /\ flow' = [flow EXCEPT !.step = IF flow.direction_filters = <<>>
                                               THEN "edit_filters"
                                               ELSE "delete_filter"]
              /\ UNCHANGED entry
         [] OTHER ->
              LET station == [k \in DOMAIN flow.stations[1] \cup {"direction_filters"} |->
                                 IF k = "direction_filters" THEN flow.direction_filters
                                 ELSE flow.stations[1][k]]
                  stations == [flow.stations EXCEPT ![1] = station]
              IN /\ entry' = [entry EXCEPT !.data = [stations |-> stations]]
                 /\ flow' = [Closed("filters") EXCEPT !.stations = stations]
    /\ UNCHANGED <<cacheVars, poll, coordinators>>

\* async_step_add_filter with user_input: lines 241-245
OptionsAddFilter(text) ==
    /\ flow.kind = "options"
    /\ flow.step = "add_filter"
    /\ LET filter_name == Strip(text)
       IN flow' = [flow EXCEPT
                      !.step = "edit_filters",
                      !.edits = @ + 1,
                      !.direction_filters =
                          IF Truthy(filter_name) /\ filter_name \notin Range(@)
                          THEN Append(@, filter_name) ELSE @]
    /\ UNCHANGED <<cacheVars, poll, coordinators, entry>>

\* async_step_delete_filter with user_input: lines 259-262
OptionsDeleteFilter(filter_idx) ==
    /\ flow.kind = "options"
    /\ flow.step = "delete_filter"
    /\ filter_idx \in 0..(Len(flow.direction_filters) - 1)
    /\ flow' = [flow EXCEPT
                   !.step = "edit_filters",
                   !.edits = @ + 1,
                   !.direction_filters =
                       SubSeq(@, 1, filter_idx) \o SubSeq(@, filter_idx + 2, Len(@))]
    /\ UNCHANGED <<cacheVars, poll, coordinators, entry>>

\* the user closes the dialogue at one of its forms: the handler is dropped
OptionsAbandon ==
    /\ flow.kind = "options"
    /\ flow.step # "closed"
    /\ flow' = Closed("abandoned")
    /\ UNCHANGED <<cacheVars, poll, coordinators, entry>>


\* lines 46-52 and 71-76: the list made of the old filter string
MigratedFiltersNoStrip(direction_filter) ==
    IF Truthy(direction_filter)
    THEN LET parts == Split(direction_filter, "|")
             filters == SelectSeq(parts, Truthy)
         IN IF filters # <<>> THEN filters ELSE <<ALL_TRAINS>>
    ELSE <<ALL_TRAINS>>

MigratedFilters(direction_filter) ==
    IF Truthy(direction_filter)
    THEN LET filters == FilterParts(direction_filter)
         IN IF filters # <<>> THEN filters ELSE <<ALL_TRAINS>>
    ELSE <<ALL_TRAINS>>

\* the test of line 44
NeedsMigration(station) ==
    "direction_filter" \in DOMAIN station /\ "direction_filters" \notin DOMAIN station

\* lines 44-56 on one station dict
MigrateStation(station) ==
    IF NeedsMigration(station)
    THEN [k \in (DOMAIN station \ {"direction_filter"}) \cup {"direction_filters"} |->
             IF k = "direction_filters" THEN MigratedFilters(station.direction_filter)
             ELSE station[k]]
    ELSE station

\* async_migrate_entry on entry.data of a version 1 entry: lines 35-97
MigrateData(old_data) ==
    IF "stations" \in DOMAIN old_data
    THEN LET stations == old_data.stations
             migrated == \E i \in DOMAIN stations : NeedsMigration(stations[i])
         IN IF migrated
            THEN [stations |-> [i \in DOMAIN stations |-> MigrateStation(stations[i])]]
            ELSE old_data
    ELSE LET direction_filter == Get(old_data, "direction_filter", <<>>)
             station_config ==
                 [station_name |-> Get(old_data, "station_name",
                                       <<"L", "I", "R", "R", " ", "S", "t", "a", "t", "i", "o", "n">>),
                  stop_id |-> Get(old_data, "stop_id", <<>>),
                  direction_filters |-> MigratedFilters(direction_filter),
                  route_filter |-> Get(old_data, "route_filter", <<>>),
                  departure_limit |-> Get(old_data, "departure_limit", 8)]
         IN [stations |-> <<station_config>>]

\* the host runs async_migrate_entry on the entry when it loads it, before
\* the entry is set up and its options can be opened; at most twice
Migrate ==
    /\ entry.kind = "entry"
    /\ flow.kind # "options"
    /\ NoDialogue
    /\ entry.migrations < 2
    /\ entry' = [entry EXCEPT !.data = MigrateData(entry.data), !.migrations = @ + 1]
    /\ UNCHANGED <<cacheVars, poll, coordinators, flow>>

\* the direction_filter strings of entries written by older releases
LegacyFilterTexts ==
    { <<>>, <<" ">>, <<"|">>, <<"h">>, <<"h", "|", "h">>,
      <<" ", "h", " ", "|", "|", "p", " ", "r">> }

\* a station as the older set-up dialogue stored it
LegacyStation(direction_filter) ==
    [station_name |-> StationName, stop_id |-> StopId,
     direction_filter |-> direction_filter, route_filter |-> <<>>,
     departure_limit |-> 8]

\* entry.data of the two older shapes: one station at top level, with or
\* without its optional keys, and a list of stations
LegacyData ==
    {LegacyStation(t) : t \in LegacyFilterTexts}
    \cup {[station_name |-> StationName, stop_id |-> StopId]}
    \cup {[stations |-> <<LegacyStation(t)>>] : t \in LegacyFilterTexts}
    \cup {[stations |-> <<LegacyStation(t), LegacyStation(u)>>] :
             t \in {<<>>, <<"h">>}, u \in {<<"|">>, <<"p", " ", "|">>}}
    \cup {[stations |-> <<LegacyStation(<<"h">>),
                          NewStationConfig(StationName, StopId, 1, <<<<"p">>>>)>>]}

\* no entry yet, or an entry of an older release read from storage
InitConfig ==
    /\ clock = 0
    /\ ticks = 0
    /\ SHARED_STATIC_SCHEDULE = None
    /\ SHARED_STATIC_SCHEDULE_LAST_UPDATE = None
    /\ objs = <<>>
    /\ pc = [s \in Stations |-> "idle"]
    /\ frame = [s \in Stations |-> NoFrame]
    /\ ret = [s \in Stations |-> NoRet]
    /\ loadedObj = None
    /\ poll = NoPoll
    /\ coordinators = NoCoordinators
    /\ flow = NoFlow
    /\ entry \in {NoEntry} \cup {[kind |-> "entry", migrations |-> 0, data |-> d] :
                                    d \in LegacyData}

NextConfig ==
    \/ ConfigStart
    \/ \E limit \in {1, 2} : StepUser(limit)
    \/ \E text \in FilterTexts : \E add_another \in BOOLEAN :
          StepAddDirectionFilter(text, add_another)
    \/ Migrate
    \/ OptionsStart
    \/ \E action \in {"edit_filters", "edit_station", "done"} : OptionsInit(action)
    \/ OptionsEditStation(2)
    \/ \E action \in {"add", "delete", "done"} : OptionsEditFilters(action)
    \/ \E text \in FilterTexts : OptionsAddFilter(text)
    \/ \E filter_idx \in 0..(MaxTyped + MaxEdits) : OptionsDeleteFilter(filter_idx)
    \/ OptionsAbandon

SpecConfig == InitConfig /\ [][NextConfig]_vars


\* the coordinator async_setup_entry makes of a station dict of the entry
\* (__init__.py line 115)
CoordinatorOf(station) ==
    NewCoordinator(
        StationConfig(StrV(station.stop_id),
                      IF "direction_filters" \in DOMAIN station
                      THEN Some(station.direction_filters) ELSE None,
                      IF "route_filter" \in DOMAIN station
                      THEN Some(station.route_filter) ELSE None,
                      IF "departure_limit" \in DOMAIN station
                      THEN Some(station.departure_limit) ELSE None))

\* str.replace(old, new) for one-character strings
Replace(str, old, new) == [i \in 1..Len(str) |-> IF str[i] = old THEN new ELSE str[i]]

\* sensor.py line 88
FilterSafe(direction_filter) ==
    Replace(Replace(Lower(direction_filter), " ", "_"), "|", "_")

\* entry.entry_id
EntryId == <<"e", "1">>

\* sensor.py line 91
unique_id(coord, sensor) ==
    <<"l", "i", "r", "r", "_">> \o EntryId \o <<"_">> \o coord.stop_id \o <<"_">>
    \o FilterSafe(sensor.direction_filter) \o <<"_">> \o IntToStr(sensor.idx)

----------------------------------------------------------------------------
(* Properties of the config entry *)

\* the set-up dialogue has just created the entry
Created == flow.kind = "config" /\ flow.step = "created"

\* a text that is empty or made of blanks
Blank(text) == \A i \in DOMAIN text : text[i] = " "

EntryFilters(n) == entry.data.stations[n].direction_filters

\* C31: every entry the set-up dialogue creates, after any sequence of
\* add_direction_filter steps (blank and whitespace-only names included), has
\* a non-empty list of direction filters; when the user typed no non-blank
\* name the list is exactly ["All Trains"].
C31_DefaultFilter ==
    Created =>
        /\ Len(entry.data.stations) = 1
        /\ EntryFilters(1) # <<>>
        /\ (\A i \in DOMAIN flow.typed : Blank(flow.typed[i]))
           => EntryFilters(1) = <<ALL_TRAINS>>

\* the user submitted a whitespace-only name, asked for another, left the
\* field empty and finished
C31_Witness ==
    /\ Created
    /\ flow.typed = << <<" ">>, <<>> >>
    /\ EntryFilters(1) = <<ALL_TRAINS>>

\* a blank name followed by a name: the list holds the name alone
C31_WitnessNamed ==
    /\ Created
    /\ flow.typed = << <<" ">>, <<"H", " ">> >>
    /\ EntryFilters(1) = << <<"H">> >>

\* the stations a set-up of the entry makes coordinators and sensors for
SetUpStations ==
    IF entry.kind = "entry" THEN StationsOf(entry.data) ELSE <<>>

\* C36: sensor unique ids are injective. For one station, two sensors that
\* differ in direction filter name or in index have different unique ids,
\* names that differ only in letter case or only in ' ', '|' or '_' at the
\* same position included.
C36_UniqueIdInjective ==
    \A n \in DOMAIN SetUpStations :
        LET coord == CoordinatorOf(SetUpStations[n])
            sensors == Sensors(coord)
        IN \A a \in DOMAIN sensors, b \in DOMAIN sensors :
              (\/ sensors[a].direction_filter # sensors[b].direction_filter
               \/ sensors[a].idx # sensors[b].idx)
              => unique_id(coord, sensors[a]) # unique_id(coord, sensors[b])


\* the segments of an old filter string that are not blank, as places
KeptSegments(text) ==
    {q \in (1..(Len(text) + 1)) \X (0..Len(text)) :
        IsSegment(text, q[1], q[2]) /\ ~Blank(SubSeq(text, q[1], q[2]))}

\* filters is the list of the '|'-separated, trimmed, non-empty parts of
\* text in their order, or ["All Trains"] when there is none
IsPartsList(filters, text) ==
    LET kept == KeptSegments(text)
    IN IF kept = {} THEN filters = <<ALL_TRAINS>>
       ELSE /\ Len(filters) = Cardinality(kept)
            /\ \A q \in kept :
                  LET at == 1 + Cardinality({r \in kept : r[1] < q[1]})
                      part == filters[at]
                  IN /\ part # <<>>
                     /\ part[1] # " " /\ part[Len(part)] # " "
                     /\ \E lead \in 0..(q[2] - q[1]) :
                           /\ SubSeq(text, q[1] + lead, q[1] + lead + Len(part) - 1) = part
                           /\ Blank(SubSeq(text, q[1], q[1] + lead - 1))
                           /\ Blank(SubSeq(text, q[1] + lead + Len(part), q[2]))

\* a station dict of an older release: the string key and not the list key
IsLegacyStation(station) ==
    "direction_filter" \in DOMAIN station /\ "direction_filters" \notin DOMAIN station

\* C37: migration outcome and idempotence. After async_migrate_entry on an
\* entry in either older shape (one station at top level, or a list of
\* stations carrying the string key direction_filter) every station has a
\* non-empty direction_filters list, made of the '|'-separated, trimmed,
\* non-empty parts of the old string or ["All Trains"] when there is none,
\* and no direction_filter key; a second run of the migration changes nothing.
C37_Migration ==
    [][Migrate =>
         LET old == entry.data
             new == entry'.data
         IN /\ "stations" \in DOMAIN new
            /\ \A n \in DOMAIN new.stations :
                  /\ "direction_filter" \notin DOMAIN new.stations[n]
                  /\ "direction_filters" \in DOMAIN new.stations[n]
                  /\ new.stations[n].direction_filters # <<>>
            /\ "stations" \notin DOMAIN old
               => /\ Len(new.stations) = 1
                  /\ IsPartsList(new.stations[1].direction_filters,
                                 Get(old, "direction_filter", <<>>))
            /\ "stations" \in DOMAIN old
               => /\ Len(new.stations) = Len(old.stations)
                  /\ \A n \in DOMAIN old.stations :
                        IF IsLegacyStation(old.stations[n])
                        THEN IsPartsList(new.stations[n].direction_filters,
                                         old.stations[n].direction_filter)
                        ELSE new.stations[n] = old.stations[n]
            /\ entry.migrations >= 1 => new = old]_vars

\* an entry of the older list shape whose station listed " h ||p r" has been
\* migrated twice
C37_Witness ==
    /\ entry.kind = "entry"
    /\ entry.migrations = 2
    /\ "route_filter" \in DOMAIN entry.data.stations[1]
    /\ EntryFilters(1) = << <<"h">>, <<"p", " ", "r">> >>

\* an entry of the older top-level shape without a filter has been migrated
C37_WitnessTopLevel ==
    /\ entry.kind = "entry"
    /\ entry.migrations = 1
    /\ entry.data.stations[1].station_name = StationName
    /\ entry.data.stations[1].departure_limit = 8
    /\ entry.data.stations[1].route_filter = <<>>
    /\ EntryFilters(1) = <<ALL_TRAINS>>
    /\ flow = NoFlow

\* the options dialogue ends at this step
OptionsCloses == flow.kind = "options" /\ flow.step # "closed" /\ flow'.step = "closed"

NoDuplicate(list) ==
    \A i \in DOMAIN list, j \in DOMAIN list : list[i] = list[j] => i = j

\* C38: the options dialogue keeps the filter list well-formed. After any
\* sequence of add_filter and delete_filter steps followed by "done" in
\* edit_filters the list stored for the station is non-empty and holds no
\* name twice; leaving the dialogue with "done" at the init step, or
\* abandoning it before "done" in edit_filters, leaves the entry data unchanged.
C38_FiltersWellFormed ==
    [][/\ (OptionsCloses /\ flow'.how = "filters")
          => /\ entry'.data.stations[1].direction_filters # <<>>
             /\ NoDuplicate(entry'.data.stations[1].direction_filters)
       /\ (/\ flow' # flow
           /\ flow'.kind = "options"
           /\ ~(OptionsCloses /\ flow'.how \in {"filters", "station"}))
          => entry' = entry]_vars

====
